---- MODULE Spec2Model ----
(***************************************************************************)
(* Model of the echem-viewer backend: the multi-user session manager       *)
(* (backend/state.py), the upload / delete request handlers                *)
(* (backend/main.py) and the session archive writer and reader             *)
(* (echem_core/export.py).                                                 *)
(*                                                                         *)
(* Time is counted in whole hours.  Sizes are counted in whole MB.  The    *)
(* limits of state.py are scaled down so that every limit is reached       *)
(* inside the explored state space; the code compares against the named    *)
(* limit only, never against its literal value.                            *)
(*                                                                         *)
(* uuid.uuid4() is modelled as an allocator of fresh identifiers: it never *)
(* returns an identifier that is, or ever was, in circulation.             *)
(***************************************************************************)
EXTENDS Integers, Sequences, FiniteSets, TLC

VARIABLES
    now,        \* datetime.utcnow(), in hours
    sessions,   \* keys of SessionManager._sessions
    heap,       \* every SessionState object ever constructed, by session_id
    nextId,     \* the next identifier uuid4 hands out
    lastOp,     \* the last call and what it returned (observation only)
    hs,         \* the upload request handlers in flight
    rt,         \* an export followed by an import: arguments and results
    xas,        \* the XAS project state and the stores of the project folders
    calc,       \* a call of a function of echem_core: arguments and result
    tasks       \* SessionManager._cleanup_task and the event loop's cleanup tasks

mgrVars == <<now, sessions, heap, nextId>>

vars == <<now, sessions, heap, nextId, lastOp, hs, rt, xas, calc, tasks>>

----------------------------------------------------------------------------
(* Limits of state.py, scaled.                                             *)

MAX_FILES_PER_SESSION == 2
MAX_FILE_SIZE_MB == 2
MAX_MEMORY_PER_SESSION_MB == 3
SESSION_TTL_HOURS == 2

(* Bounds of the exploration.                                              *)

MaxTime == 4
MaxSessions == 2

----------------------------------------------------------------------------
(* Values.                                                                 *)

\* Python's None, where a string is expected.
NoneV == "None"

\* Optional[str] session ids: None, the empty string, an id nobody issued.
NoneId == 0
EmptyId == -1
UnknownId == -2

\* Python truthiness of an Optional[str].
Truthy(v) == v # NoneV /\ v # ""

\* An empty dict.
EmptyMap == [x \in {} |-> NoneV]

\* d[k] = v
Put(d, k, v) == [x \in (DOMAIN d) \cup {k} |-> IF x = k THEN v ELSE d[x]]

\* No function call under observation.
NoCall == [stage |-> "idle"]

\* SessionManager.__init__: _cleanup_task = None; no task is scheduled.
NoTasks == [cleanup_task |-> NoneId, live |-> {}, created |-> 0]

\* d.pop(k, None)
Drop(d, k) == [x \in (DOMAIN d) \ {k} |-> d[x]]

\* A polars DataFrame: its column names, its height, its estimated_size().
DF(cols, nrows, mb) == [columns |-> cols, rows |-> nrows, size_mb |-> mb]

\* EchemDataset: the fields the backend and the archive format read.
Dataset(fn, lbl, tech, cyc, cols, df) ==
    [filename |-> fn, label |-> lbl, technique |-> tech, cycles |-> cyc,
     columns |-> cols, df |-> df]

----------------------------------------------------------------------------
(* SessionState.                                                           *)

NewSession(t) ==
    [last_accessed |-> t, datasets |-> EmptyMap, file_metadata |-> EmptyMap]

touch(sess, t) == [sess EXCEPT !.last_accessed = t]

add_dataset(sess, ds, t) ==
    [touch(sess, t) EXCEPT
        !.datasets = Put(@, ds.filename, ds),
        !.file_metadata =
            Put(@, ds.filename,
                [k \in {"label"} |->
                    IF Truthy(ds.label) THEN ds.label ELSE ds.filename])]

\* A removal that forgets the file's metadata.
RemoveDatasetKeepsMetadata(sess, fn, t) ==
    [touch(sess, t) EXCEPT !.datasets = Drop(@, fn)]

remove_dataset(sess, fn, t) ==
    [touch(sess, t) EXCEPT
        !.datasets = Drop(@, fn),
        !.file_metadata = Drop(@, fn)]

\* The loop with None stored like any other value.
ApplyUpdatesStoreNone(meta, updates) ==
    [k \in (DOMAIN meta) \cup (DOMAIN updates) |->
        IF k \in DOMAIN updates THEN updates[k] ELSE meta[k]]

\* One file's metadata after the loop over updates.items().
ApplyUpdates(meta, updates) ==
    LET removed == {k \in DOMAIN updates : updates[k] = NoneV}
        assigned == (DOMAIN updates) \ removed
    IN  [k \in ((DOMAIN meta) \ removed) \cup assigned |->
            IF k \in assigned THEN updates[k] ELSE meta[k]]

update_metadata(sess, fn, updates, t) ==
    IF fn \in DOMAIN sess.file_metadata
    THEN [touch(sess, t) EXCEPT
            !.file_metadata[fn] = ApplyUpdates(@, updates)]
    ELSE touch(sess, t)

clear(sess) ==
    [sess EXCEPT !.datasets = EmptyMap, !.file_metadata = EmptyMap]

file_count(sess) == Cardinality(DOMAIN sess.datasets)

\* A limit that admits one file more.
CanAddFilesInclusive(sess) == file_count(sess) <= MAX_FILES_PER_SESSION

can_add_files(sess) == file_count(sess) < MAX_FILES_PER_SESSION

files_remaining(sess) ==
    IF MAX_FILES_PER_SESSION - file_count(sess) > 0
    THEN MAX_FILES_PER_SESSION - file_count(sess)
    ELSE 0

RECURSIVE SumSizes(_, _)
SumSizes(d, keys) ==
    IF keys = {} THEN 0
    ELSE LET k == CHOOSE x \in keys : TRUE
         IN  d[k].df.size_mb + SumSizes(d, keys \ {k})

get_memory_estimate_mb(sess) == SumSizes(sess.datasets, DOMAIN sess.datasets)

\* No memory budget.
CanAddMemoryAlways(sess, additional_mb) == TRUE

can_add_memory(sess, additional_mb) ==
    get_memory_estimate_mb(sess) + additional_mb <= MAX_MEMORY_PER_SESSION_MB

IsExpiredInclusive(sess, t) == t >= sess.last_accessed + SESSION_TTL_HOURS

is_expired(sess, t) == t > sess.last_accessed + SESSION_TTL_HOURS

----------------------------------------------------------------------------
(* SessionManager.                                                         *)

Op(name, arg, ret, flag, idle) ==
    [op |-> name, arg |-> arg, ret |-> ret, flag |-> flag, idle |-> idle]

\* A call no property needs to observe.
Other == Op("other", NoneId, NoneId, FALSE, -1)

\* Idle time of the session a call is about, as the call finds it.
IdleOf(id) == IF id \in sessions THEN now - heap[id].last_accessed ELSE -1

\* get_session with the expiry test left out.
GetSessionNoExpiry(id) ==
    IF id \notin sessions
    THEN [ret |-> NoneId, map |-> sessions, hp |-> heap]
    ELSE [ret |-> id, map |-> sessions,
          hp |-> [heap EXCEPT ![id] = touch(@, now)]]

\* get_session: what it returns, and the map and the objects afterwards.
GetSessionRes(id) ==
    IF id \notin sessions
    THEN [ret |-> NoneId, map |-> sessions, hp |-> heap]
    ELSE IF is_expired(heap[id], now)
         THEN [ret |-> NoneId, map |-> sessions \ {id}, hp |-> heap]
         ELSE [ret |-> id, map |-> sessions,
               hp |-> [heap EXCEPT ![id] = touch(@, now)]]

\* get_session called on its own.
GetSession(id) ==
    LET r == GetSessionRes(id)
    IN  /\ sessions' = r.map
        /\ heap' = r.hp
        /\ lastOp' = Op("get_session", id, r.ret, FALSE, IdleOf(id))
        /\ UNCHANGED <<now, nextId, hs, rt, xas, calc, tasks>>

\* get_or_create_session and create_session: the id and session returned,
\* and the map, the objects and the allocator afterwards.
GetOrCreateRes(id) ==
    LET r == IF id # NoneId /\ id # EmptyId
             THEN GetSessionRes(id)
             ELSE [ret |-> NoneId, map |-> sessions, hp |-> heap]
    IN  IF r.ret # NoneId
        THEN [sid |-> id, map |-> r.map, hp |-> r.hp, next |-> nextId]
        ELSE [sid |-> nextId,
              map |-> r.map \cup {nextId},
              hp |-> [i \in (DOMAIN r.hp) \cup {nextId} |->
                        IF i = nextId THEN NewSession(now) ELSE r.hp[i]],
              next |-> nextId + 1]

\* The request dependency get_session of main.py; flag is whether it sets
\* the session cookie.
GetOrCreateSession(id) ==
    LET g == GetOrCreateRes(id)
    IN  /\ g.next <= MaxSessions + 1
        /\ sessions' = g.map
        /\ heap' = g.hp
        /\ nextId' = g.next
        /\ lastOp' = Op("get_or_create", id, g.sid, g.sid # id, IdleOf(id))
        /\ UNCHANGED <<now, hs, rt, xas, calc, tasks>>

DeleteSession(id) ==
    /\ sessions' = sessions \ {id}
    /\ lastOp' = Other
    /\ UNCHANGED <<now, heap, nextId, hs, rt, xas, calc, tasks>>

\* A cleanup that finds nothing to remove.
CleanupRemovesNothing ==
    /\ lastOp' = Op("cleanup", NoneId, 0, FALSE, -1)
    /\ UNCHANGED <<now, sessions, heap, nextId, hs, rt, xas, calc, tasks>>

CleanupExpiredSessions ==
    LET expired == {sid \in sessions : is_expired(heap[sid], now)}
    IN  /\ sessions' = sessions \ expired
        /\ lastOp' = Op("cleanup", NoneId, Cardinality(expired), FALSE, -1)
        /\ UNCHANGED <<now, heap, nextId, hs, rt, xas, calc, tasks>>

\* The clock moves on.
Tick ==
    /\ now < MaxTime
    /\ now' = now + 1
    /\ lastOp' = Other
    /\ UNCHANGED <<sessions, heap, nextId, hs, rt, xas, calc, tasks>>

----------------------------------------------------------------------------
(* Calls on a SessionState by whoever holds a reference to it (a request   *)
(* handler keeps its reference also after the manager dropped the key).    *)

MgrDataset ==
    Dataset("a.mpr", NoneV, NoneV, <<>>, <<"time_s">>, DF(<<"time_s">>, 1, 1))

MgrUpdates == {[k \in {"note"} |-> "x"], [k \in {"note"} |-> NoneV]}

AddDataset(s, ds) ==
    /\ heap' = [heap EXCEPT ![s] = add_dataset(@, ds, now)]
    /\ lastOp' = Other
    /\ UNCHANGED <<now, sessions, nextId, hs, rt, xas, calc, tasks>>

RemoveDataset(s, fn) ==
    /\ heap' = [heap EXCEPT ![s] = remove_dataset(@, fn, now)]
    /\ lastOp' = Other
    /\ UNCHANGED <<now, sessions, nextId, hs, rt, xas, calc, tasks>>

UpdateMetadata(s, fn, updates) ==
    /\ heap' = [heap EXCEPT ![s] = update_metadata(@, fn, updates, now)]
    /\ lastOp' = Other
    /\ UNCHANGED <<now, sessions, nextId, hs, rt, xas, calc, tasks>>

Clear(s) ==
    /\ heap' = [heap EXCEPT ![s] = clear(@)]
    /\ lastOp' = Other
    /\ UNCHANGED <<now, sessions, nextId, hs, rt, xas, calc, tasks>>

----------------------------------------------------------------------------
(* The session archive (echem_core/export.py).  A zip is the set of its    *)
(* member names, the decoded metadata.json (or the rows of a legacy        *)
(* metadata.csv) and the tables stored under data/.  Parquet and CSV both  *)
(* keep a table's column names and height.  Timestamps and provenance are  *)
(* not modelled.                                                           *)

\* f"data/{filename}.{ext}"
DataPath(fn, ext) == <<"data", fn, ext>>

MetadataJson == <<"metadata.json">>

MetadataCsv == <<"metadata.csv">>

FileTableCsv == <<"file_table.csv">>

\* A path-valued key that is absent from a file entry (.get gives None).
NoPath == <<>>

\* d.get(k, default)
Get(d, k, default) == IF k \in DOMAIN d THEN d[k] ELSE default

\* The pass of the export loop with the dataset's own label written out.
ExportOneOwnLabel(st, ds, include_csv) ==
    LET parquet_name == DataPath(ds.filename, "parquet")
        custom == Drop(Get(st.fm, ds.filename, EmptyMap), "label")
        file_entry ==
            [filename |-> ds.filename,
             data_path |-> parquet_name,
             parquet_path |-> NoPath,
             parquet_name |-> NoPath,
             technique |-> ds.technique,
             columns |-> ds.columns,
             cycles |-> ds.cycles,
             label |-> ds.label,
             custom |-> custom]
    IN  [names |-> st.names \cup {parquet_name},
         data |-> Put(st.data, parquet_name, ds.df),
         files |-> Append(st.files, file_entry),
         fm |-> st.fm]

\* One pass of the export loop: the archive so far and the caller's
\* file_metadata dict, whose per-file dicts the loop works on directly.
ExportOne(st, ds, include_csv) ==
    LET parquet_name == DataPath(ds.filename, "parquet")
        csv_name == DataPath(ds.filename, "csv")
        had == ds.filename \in DOMAIN st.fm
        custom0 == Get(st.fm, ds.filename, EmptyMap)
        has_label == "label" \in DOMAIN custom0
        label == IF has_label THEN custom0["label"] ELSE ds.label
        custom == IF has_label THEN Drop(custom0, "label") ELSE custom0
        file_entry ==
            [filename |-> ds.filename,
             data_path |-> parquet_name,
             parquet_path |-> NoPath,
             parquet_name |-> NoPath,
             technique |-> ds.technique,
             columns |-> ds.columns,
             cycles |-> ds.cycles,
             label |-> label,
             custom |-> custom]
    IN  [names |-> st.names \cup {parquet_name}
                    \cup (IF include_csv THEN {csv_name} ELSE {}),
         data |-> IF include_csv
                  THEN Put(Put(st.data, parquet_name, ds.df), csv_name, ds.df)
                  ELSE Put(st.data, parquet_name, ds.df),
         files |-> Append(st.files, file_entry),
         fm |-> IF had THEN Put(st.fm, ds.filename, custom) ELSE st.fm]

RECURSIVE ExportLoop(_, _, _, _)
ExportLoop(st, datasets, i, include_csv) ==
    IF i > Len(datasets) THEN st
    ELSE ExportLoop(ExportOne(st, datasets[i], include_csv),
                    datasets, i + 1, include_csv)

\* session_export: the zip it returns, and file_metadata as it leaves it.
session_export(datasets, file_metadata, include_csv) ==
    LET st == ExportLoop([names |-> {}, data |-> EmptyMap, files |-> <<>>,
                          fm |-> file_metadata],
                         datasets, 1, include_csv)
    IN  [zip |-> [names |-> st.names \cup {MetadataJson}
                              \cup (IF st.files # <<>>
                                    THEN {FileTableCsv} ELSE {}),
                  metadata |-> st.files,
                  legacy |-> <<>>,
                  data |-> st.data],
         file_metadata |-> st.fm]

\* The member a file entry is read from, NoPath when there is none.
ResolveDataPath(zip, file_info) ==
    LET given == IF file_info.data_path # NoPath THEN file_info.data_path
                 ELSE IF file_info.parquet_path # NoPath
                      THEN file_info.parquet_path
                      ELSE file_info.parquet_name
    IN  IF given \in zip.names THEN given
        ELSE IF DataPath(file_info.filename, "parquet") \in zip.names
             THEN DataPath(file_info.filename, "parquet")
             ELSE IF DataPath(file_info.filename, "csv") \in zip.names
                  THEN DataPath(file_info.filename, "csv")
                  ELSE NoPath

\* One pass of the import loop over metadata["files"].
ImportOne(zip, st, file_info) ==
    LET data_path == ResolveDataPath(zip, file_info)
        dataset == Dataset(file_info.filename, file_info.label,
                           file_info.technique, file_info.cycles,
                           file_info.columns, zip.data[data_path])
        custom == IF Truthy(file_info.label)
                  THEN Put(file_info.custom, "label", file_info.label)
                  ELSE file_info.custom
    IN  IF data_path = NoPath THEN st
        ELSE [datasets |-> Append(st.datasets, dataset),
              file_metadata |->
                  IF DOMAIN custom # {}
                  THEN Put(st.file_metadata, file_info.filename, custom)
                  ELSE st.file_metadata]

\* One pass of the import loop over the rows of a legacy metadata.csv.
ImportLegacyOne(zip, st, row) ==
    LET csv_path == DataPath(row.filename, "csv")
        df == zip.data[csv_path]
        dataset == Dataset(row.filename, row.label, row.technique, <<>>,
                           df.columns, df)
    IN  IF csv_path \notin zip.names THEN st
        ELSE [datasets |-> Append(st.datasets, dataset),
              file_metadata |->
                  Put(st.file_metadata, row.filename,
                      [k \in {"label"} |-> row.label])]

RECURSIVE ImportLoop(_, _, _, _, _)
ImportLoop(zip, st, entries, i, legacy) ==
    IF i > Len(entries) THEN st
    ELSE ImportLoop(zip,
                    IF legacy THEN ImportLegacyOne(zip, st, entries[i])
                    ELSE ImportOne(zip, st, entries[i]),
                    entries, i + 1, legacy)

\* session_import: ok is FALSE when it raises ValueError.
session_import(zip) ==
    LET st0 == [datasets |-> <<>>, file_metadata |-> EmptyMap]
    IN  IF MetadataJson \in zip.names
        THEN [ok |-> TRUE] @@ ImportLoop(zip, st0, zip.metadata, 1, FALSE)
        ELSE IF MetadataCsv \in zip.names
             THEN [ok |-> TRUE] @@ ImportLoop(zip, st0, zip.legacy, 1, TRUE)
             ELSE [ok |-> FALSE] @@ st0

----------------------------------------------------------------------------
(* session_import(session_export(D, file_metadata = M)).                   *)

RtFilenames == {"a.mpr", "b.dta"}

RtLabels == {NoneV, "", "run A"}

RtTables ==
    {[technique |-> NoneV, cycles |-> <<>>, columns |-> <<"time_s">>,
      df |-> DF(<<"time_s">>, 0, 0)],
     [technique |-> "CV", cycles |-> <<1, 2>>,
      columns |-> <<"potential_V", "current_A", "cycle">>,
      df |-> DF(<<"potential_V", "current_A", "cycle">>, 3, 1)]}

RtDatasets ==
    {Dataset(fn, l, t.technique, t.cycles, t.columns, t.df) :
        fn \in RtFilenames, l \in RtLabels, t \in RtTables}

\* Lists of datasets with pairwise distinct filenames.
RtDatasetLists ==
    {<<>>} \cup {<<d>> : d \in RtDatasets}
           \cup {<<d, e>> : d \in {x \in RtDatasets : x.filename = "a.mpr"},
                            e \in {x \in RtDatasets : x.filename = "b.dta"}}
           \cup {<<d, e>> : d \in {x \in RtDatasets : x.filename = "b.dta"},
                            e \in {x \in RtDatasets : x.filename = "a.mpr"}}

\* One file's metadata dict: an optional label and an optional custom column.
RtFileMeta ==
    {l @@ c :
        l \in {EmptyMap} \cup {[k \in {"label"} |-> v] :
                                  v \in {NoneV, "", "edited"}},
        c \in {EmptyMap} \cup {[k \in {"note"} |-> v] : v \in {NoneV, "x"}}}

RtMetadataMaps == UNION {[S -> RtFileMeta] : S \in SUBSET RtFilenames}

NoZip ==
    [names |-> {}, metadata |-> <<>>, legacy |-> <<>>, data |-> EmptyMap]

NoImport == [ok |-> FALSE, datasets |-> <<>>, file_metadata |-> EmptyMap]

RtIdle ==
    [stage |-> "idle", datasets |-> <<>>, passed |-> EmptyMap,
     file_metadata |-> EmptyMap, zip |-> NoZip, out |-> NoImport]

\* The caller writes the archive.
RtExport(include_csv) ==
    /\ rt.stage = "args"
    /\ LET e == session_export(rt.datasets, rt.file_metadata, include_csv)
       IN  rt' = [rt EXCEPT !.stage = "exported",
                            !.file_metadata = e.file_metadata,
                            !.zip = e.zip]
    /\ UNCHANGED <<now, sessions, heap, nextId, lastOp, hs, xas, calc, tasks>>

\* The caller reads the archive back.
RtImport ==
    /\ rt.stage = "exported"
    /\ rt' = [rt EXCEPT !.stage = "imported", !.out = session_import(rt.zip)]
    /\ UNCHANGED <<now, sessions, heap, nextId, lastOp, hs, xas, calc, tasks>>

----------------------------------------------------------------------------
(* The upload and delete request handlers (backend/main.py).  upload_files *)
(* is a coroutine: it can be suspended at `await file.read()` and nowhere  *)
(* else, so one pass of its loop is two steps, the part before the await   *)
(* and the part after it.                                                  *)

Handlers == {"h1", "h2"}

\* An uploaded file: its name, the length of its content, and what parsing
\* the content gives (a dataset for .mpr / .dta, an archive for .zip).
RawFile(name, ext, size, parses, ds) ==
    [name |-> name, ext |-> ext, size_mb |-> size, parses |-> parses,
     dataset |-> ds, zip |-> NoZip]

ZipFile(name, size, parses, zip) ==
    [name |-> name, ext |-> ".zip", size_mb |-> size, parses |-> parses,
     dataset |-> Dataset(name, NoneV, NoneV, <<>>, <<>>, DF(<<>>, 0, 0)),
     zip |-> zip]

IdleHandler ==
    [pc |-> "idle", sid |-> NoneId, files |-> <<>>, i |-> 0, status |-> 0,
     added |-> <<>>, errors |-> <<>>, outcome |-> <<>>, found |-> EmptyMap]

HsIdle == [h \in Handlers |-> IdleHandler]

\* `continue` / the end of the loop body: the next file, or the response.
Advance(hr) ==
    IF hr.i < Len(hr.files)
    THEN [hr EXCEPT !.pc = "check", !.i = hr.i + 1]
    ELSE [hr EXCEPT !.pc = "done"]

\* A rejection that leaves no entry in errors.
RejectSilently(hr, kind) ==
    Advance([hr EXCEPT !.outcome = Append(@, kind)])

\* errors.append(f"{filename}: ...") followed by `continue`.
Reject(hr, kind) ==
    Advance([hr EXCEPT
        !.errors = Append(@, [file |-> hr.files[hr.i].name, kind |-> kind]),
        !.outcome = Append(@, kind)])

\* The request arrives: the session dependency, then the check of
\* files_remaining() that refuses the whole request with HTTP 400.
StartUpload(h, cookie, files) ==
    /\ hs[h].pc = "idle"
    /\ LET g == GetOrCreateRes(cookie)
           sess == g.hp[g.sid]
       IN  /\ g.next <= MaxSessions + 1
           /\ sessions' = g.map
           /\ heap' = g.hp
           /\ nextId' = g.next
           /\ hs' = [hs EXCEPT ![h] =
                  IF files_remaining(sess) = 0
                  THEN [IdleHandler EXCEPT
                          !.pc = "done", !.sid = g.sid, !.files = files,
                          !.status = 400, !.found = sess.datasets,
                          !.outcome = [j \in 1 .. Len(files) |-> "refused"]]
                  ELSE [IdleHandler EXCEPT
                          !.pc = "check", !.sid = g.sid, !.files = files,
                          !.i = 1, !.status = 200,
                          !.found = sess.datasets]]
    /\ UNCHANGED <<now, lastOp, rt, xas, calc, tasks>>

\* The head of the loop body, up to `await file.read()`.
UploadCheck(h) ==
    /\ hs[h].pc = "check"
    /\ hs' = [hs EXCEPT ![h] =
                IF ~can_add_files(heap[hs[h].sid])
                THEN Reject(@, "file_limit")
                ELSE [@ EXCEPT !.pc = "read"]]
    /\ UNCHANGED <<now, sessions, heap, nextId, lastOp, rt, xas, calc, tasks>>

\* sum(ds.df.estimated_size() ... for ds in datasets)
RECURSIVE TotalNewMemory(_, _)
TotalNewMemory(datasets, j) ==
    IF j > Len(datasets) THEN 0
    ELSE datasets[j].df.size_mb + TotalNewMemory(datasets, j + 1)

\* The loop over the datasets of an imported archive.
RECURSIVE ZipAddLoop(_, _, _, _, _)
ZipAddLoop(st, datasets, imported_metadata, j, t) ==
    IF j > Len(datasets) \/ ~can_add_files(st.sess) THEN st
    ELSE LET ds == datasets[j]
             s1 == add_dataset(st.sess, ds, t)
             s2 == IF ds.filename \in DOMAIN imported_metadata
                   THEN update_metadata(s1, ds.filename,
                                        imported_metadata[ds.filename], t)
                   ELSE s1
         IN  ZipAddLoop([sess |-> s2, added |-> Append(st.added, ds.filename)],
                        datasets, imported_metadata, j + 1, t)

\* The loop body after the await: what becomes of the session, and either
\* the names added or the kind of the error entry.
ProcessFile(sess, f, t) ==
    IF f.size_mb > MAX_FILE_SIZE_MB
    THEN [sess |-> sess, added |-> <<>>, error |-> "too_large"]
    ELSE IF f.ext \notin {".mpr", ".dta", ".zip"}
    THEN [sess |-> sess, added |-> <<>>, error |-> "invalid_type"]
    ELSE IF f.ext = ".zip"
    THEN LET imp == session_import(f.zip)
         IN  IF ~f.parses \/ ~imp.ok
             THEN [sess |-> sess, added |-> <<>>, error |-> "exception"]
             ELSE IF ~can_add_memory(sess, TotalNewMemory(imp.datasets, 1))
             THEN [sess |-> sess, added |-> <<>>, error |-> "memory"]
             ELSE ZipAddLoop([sess |-> sess, added |-> <<>>], imp.datasets,
                             imp.file_metadata, 1, t)
                  @@ [error |-> "none"]
    ELSE IF ~f.parses
    THEN [sess |-> sess, added |-> <<>>, error |-> "exception"]
    ELSE IF ~can_add_memory(sess, f.dataset.df.size_mb)
    THEN [sess |-> sess, added |-> <<>>, error |-> "memory"]
    ELSE [sess |-> add_dataset(sess, f.dataset, t),
          added |-> <<f.dataset.filename>>, error |-> "none"]

\* The rest of the loop body, from the return of `await file.read()`.
UploadProcess(h) ==
    /\ hs[h].pc = "read"
    /\ LET hr == hs[h]
           r == ProcessFile(heap[hr.sid], hr.files[hr.i], now)
       IN  /\ heap' = [heap EXCEPT ![hr.sid] = r.sess]
           /\ hs' = [hs EXCEPT ![h] =
                  IF r.error # "none"
                  THEN Reject(hr, r.error)
                  ELSE Advance([hr EXCEPT
                          !.added = @ \o r.added,
                          !.outcome = Append(@, "added")])]
    /\ UNCHANGED <<now, sessions, nextId, lastOp, rt, xas, calc, tasks>>

\* The response leaves; the handler is gone.
UploadRespond(h) ==
    /\ hs[h].pc = "done"
    /\ hs' = [hs EXCEPT ![h] = IdleHandler]
    /\ UNCHANGED <<now, sessions, heap, nextId, lastOp, rt, xas, calc, tasks>>

\* DELETE /files/{filename}: 404 when the file is unknown.
DeleteFile(cookie, filename) ==
    LET g == GetOrCreateRes(cookie)
        sess == g.hp[g.sid]
    IN  /\ g.next <= MaxSessions + 1
        /\ sessions' = g.map
        /\ nextId' = g.next
        /\ heap' = IF filename \in DOMAIN sess.datasets
                   THEN [g.hp EXCEPT ![g.sid] = remove_dataset(@, filename, now)]
                   ELSE g.hp
        /\ UNCHANGED <<now, lastOp, hs, rt, xas, calc, tasks>>

----------------------------------------------------------------------------
(* The XAS project (backend/routers/xas.py): the process-wide              *)
(* XASProjectState, the TinyDB files of the project folders, and the       *)
(* TinyDB objects that hold such a file open.  A table is the list of its  *)
(* documents, a document a dict of strings.                                *)

\* Q.field == value: the document has the field, with that value.
Has(doc, field, value) == field \in DOMAIN doc /\ doc[field] = value

\* (Q.f1 == doc.f1) & (Q.f2 == doc.f2) & ...
Matches(d, doc, fields) == \A f \in fields : Has(d, f, doc[f])

\* An upsert that inserts whether or not a document matches.
UpsertInsertAlways(table, doc, fields) ==
    Append(table, doc)

\* table.upsert(doc, cond): every match takes the fields of doc and keeps
\* its others; without a match doc is inserted.
Upsert(table, doc, fields) ==
    IF \E i \in 1 .. Len(table) : Matches(table[i], doc, fields)
    THEN [i \in 1 .. Len(table) |->
            IF Matches(table[i], doc, fields) THEN doc @@ table[i]
            ELSE table[i]]
    ELSE Append(table, doc)

\* What table.remove(Q.field == value) leaves.
Remove(table, field, value) ==
    SelectSeq(table, LAMBDA d : ~Has(d, field, value))

\* table.search(Q.field == value)
Search(table, field, value) ==
    SelectSeq(table, LAMBDA d : Has(d, field, value))

EmptyStore ==
    [datasets |-> <<>>, roi_configs |-> <<>>, scans |-> <<>>,
     references |-> <<>>, peak_fits |-> <<>>]

\* Project folders that exist, and one that does not.
ProjectPaths == {"P1", "P2"}

MissingPath == "missing"

\* scan_h5_for_datasets: what the folder holds.
ScanH5(path) == <<[sample |-> path, dataset |-> "d1"]>>

\* The default ROIs seeded into an empty roi_configs table (one of the six).
DefaultRois == <<[name |-> "mu_roi"]>>

RECURSIVE UpsertAll(_, _, _, _)
UpsertAll(table, docs, i, fields) ==
    IF i > Len(docs) THEN table
    ELSE UpsertAll(Upsert(table, docs[i], fields), docs, i + 1, fields)

\* A response: the handler, its argument, the HTTP status, a number reported.
XasResp(op, arg, status, n) ==
    [op |-> op, arg |-> arg, status |-> status, n |-> n]

\* No open_project request is being handled.
NoOpen == [stage |-> "idle", path |-> NoneV, known |-> FALSE]

\* The module's state after import: _project = XASProjectState().  handles
\* counts, per folder, the TinyDB objects that hold its file open.
XasInit ==
    [project_path |-> NoneV,
     db |-> NoneV,
     handles |-> [p \in ProjectPaths |-> 0],
     stores |-> [p \in ProjectPaths |-> EmptyStore],
     resp |-> XasResp("none", NoneV, 0, 0),
     opening |-> NoOpen]

\* XASProjectState.is_open
is_open(x) == x.project_path # NoneV /\ x.db # NoneV

\* A close that forgets the folder and keeps the database object.
XasCloseKeepsDb(x) ==
    [x EXCEPT !.project_path = NoneV]

\* XASProjectState.close
XasClose(x) ==
    [x EXCEPT !.handles = IF x.db # NoneV
                          THEN [@ EXCEPT ![x.db] = @ - 1] ELSE @,
              !.project_path = NoneV,
              !.db = NoneV]

\* An open_project that leaves the previous project as it is.
OpenHeadKeep(x) == x

\* The head of open_project: the previous project is closed.
OpenHead(x) == IF is_open(x) THEN XasClose(x) ELSE x

\* The rest of open_project: the beamline lookup, XASProjectState.open, the
\* scan of the folder and the seeding of the ROI table.  known says whether
\* h5_paths was given or the beamline is in BEAMLINE_CONFIGS.
OpenTail(x, path, known) ==
    IF ~known THEN [x EXCEPT !.resp = XasResp("open", path, 400, 0)]
    ELSE IF path \notin ProjectPaths
    THEN [x EXCEPT !.project_path = path,
                   !.resp = XasResp("open", path, 400, 0)]
    ELSE LET st == x.stores[path]
             ds == UpsertAll(st.datasets, ScanH5(path), 1,
                             {"sample", "dataset"})
             rois == IF Len(st.roi_configs) = 0
                     THEN st.roi_configs \o DefaultRois
                     ELSE st.roi_configs
         IN  [x EXCEPT !.project_path = path,
                       !.db = path,
                       !.handles[path] = @ + 1,
                       !.stores[path] =
                           [st EXCEPT !.datasets = ds, !.roi_configs = rois],
                       !.resp = XasResp("open", path, 200, Len(ds))]

\* What the XAS handlers leave alone.
sessionVars == <<now, sessions, heap, nextId, lastOp, hs, rt, calc, tasks>>

\* POST /project/open, up to the closing of the previous project.
OpenProjectStart(path, known) ==
    /\ xas.opening.stage = "idle"
    /\ xas' = [OpenHead(xas) EXCEPT
                 !.opening = [stage |-> "closed", path |-> path,
                              known |-> known]]
    /\ UNCHANGED sessionVars

\* POST /project/open, from there to its response.
OpenProjectFinish ==
    /\ xas.opening.stage = "closed"
    /\ xas' = [OpenTail(xas, xas.opening.path, xas.opening.known) EXCEPT
                 !.opening = NoOpen]
    /\ UNCHANGED sessionVars

\* POST /project/close
CloseProject ==
    /\ xas.opening.stage = "idle"
    /\ xas' = [XasClose(xas) EXCEPT
                 !.resp = XasResp("close", NoneV, 200, 0)]
    /\ UNCHANGED sessionVars

\* The store of the open project.
OpenStore == IF is_open(xas) THEN xas.stores[xas.db] ELSE EmptyStore

\* A handler that starts with get_project(): refused with 400 when no
\* project is open, else it rewrites the open project's store as r says.
XasRequest(op, arg, r) ==
    /\ xas.opening.stage = "idle"
    /\ xas' = IF ~is_open(xas)
              THEN [xas EXCEPT !.resp = XasResp(op, arg, 400, 0)]
              ELSE [xas EXCEPT !.stores[xas.db] = r.store,
                               !.resp = XasResp(op, arg, r.status, r.n)]
    /\ UNCHANGED sessionVars

\* save_roi_config
SaveRoiConfigIn(st, name) ==
    [store |-> [st EXCEPT !.roi_configs =
                   Upsert(@, [name |-> name], {"name"})],
     status |-> 200, n |-> 0]

SaveRoiConfig(name) ==
    XasRequest("save_roi_config", name, SaveRoiConfigIn(OpenStore, name))

\* delete_roi_config
DeleteRoiConfigIn(st, name) ==
    LET left == Remove(st.roi_configs, "name", name)
    IN  IF Len(left) = Len(st.roi_configs)
        THEN [store |-> st, status |-> 404, n |-> 0]
        ELSE [store |-> [st EXCEPT !.roi_configs = left],
              status |-> 200, n |-> 0]

DeleteRoiConfig(name) ==
    XasRequest("delete_roi_config", name,
               DeleteRoiConfigIn(OpenStore, name))

\* save_scan_params: reference_name is written only for an aligned scan.
SaveScanParamsIn(st, r) ==
    LET base == [sample |-> r.sample, dataset |-> r.dataset, roi |-> r.roi,
                 scan |-> r.scan, status |-> r.status,
                 aligned |-> IF r.aligned THEN "True" ELSE "False"]
        doc == IF r.aligned
               THEN base @@ [k \in {"reference_name"} |-> r.reference_name]
               ELSE base
    IN  [store |-> [st EXCEPT !.scans =
                       Upsert(@, doc, {"sample", "dataset", "roi", "scan"})],
         status |-> 200, n |-> 0]

SaveScanParams(r) ==
    XasRequest("save_scan_params", r.roi, SaveScanParamsIn(OpenStore, r))

\* save_reference
SaveReferenceIn(st, name) ==
    [store |-> [st EXCEPT !.references =
                   Upsert(@, [name |-> name], {"name"})],
     status |-> 200, n |-> 0]

SaveReference(name) ==
    XasRequest("save_reference", name, SaveReferenceIn(OpenStore, name))

\* A delete_reference that does not look at the scans.
DeleteReferenceUnchecked(st, name) ==
    LET left == Remove(st.references, "name", name)
    IN  IF Len(left) = Len(st.references)
        THEN [store |-> st, status |-> 404, n |-> 0]
        ELSE [store |-> [st EXCEPT !.references = left],
              status |-> 200, n |-> 0]

\* delete_reference
DeleteReferenceIn(st, name) ==
    LET scans_using == Search(st.scans, "reference_name", name)
        left == Remove(st.references, "name", name)
    IN  IF Len(scans_using) > 0
        THEN [store |-> st, status |-> 400, n |-> Len(scans_using)]
        ELSE IF Len(left) = Len(st.references)
        THEN [store |-> st, status |-> 404, n |-> 0]
        ELSE [store |-> [st EXCEPT !.references = left],
              status |-> 200, n |-> 0]

DeleteReference(name) ==
    XasRequest("delete_reference", name,
               DeleteReferenceIn(OpenStore, name))

\* bulk_apply_params: the loop over request.scans.  A field the request
\* leaves None keeps the value of the existing record; the normalization
\* numbers are left out of the documents.
RECURSIVE BulkLoop(_, _, _)
BulkLoop(table, b, i) ==
    IF i > Len(b.scans) THEN table
    ELSE LET key == [sample |-> b.sample, dataset |-> b.dataset,
                     roi |-> b.roi, scan |-> b.scans[i]]
             keys == {"sample", "dataset", "roi", "scan"}
             found == {j \in 1 .. Len(table) : Matches(table[j], key, keys)}
             existing == table[CHOOSE j \in found : \A k \in found : j <= k]
             doc == key @@
                    [status |->
                        IF b.status # NoneV THEN b.status
                        ELSE IF found = {} THEN "unreviewed"
                        ELSE IF "status" \in DOMAIN existing
                        THEN existing["status"] ELSE "unreviewed",
                     aligned |->
                        IF found # {} /\ "aligned" \in DOMAIN existing
                        THEN existing["aligned"] ELSE "False"]
         IN  BulkLoop(Upsert(table, doc, keys), b, i + 1)

BulkApplyParams(b) ==
    XasRequest("bulk_apply_params", b.roi,
               [store |-> [OpenStore EXCEPT !.scans = BulkLoop(@, b, 1)],
                status |-> 200, n |-> Len(b.scans)])

\* save_peak_fit
SavePeakFit(f) ==
    XasRequest("save_peak_fit", f.roi,
               [store |-> [OpenStore EXCEPT !.peak_fits =
                              Upsert(@, f, {"sample", "dataset", "roi"})],
                status |-> 200, n |-> 0])

----------------------------------------------------------------------------
(* The session manager and the sessions it hands out.                      *)

\* What a client can send as its cookie: nothing, the empty string, a string
\* nobody issued, or an id issued earlier (uuid4 is not guessed in advance).
Cookies == (DOMAIN heap) \cup {NoneId, EmptyId, UnknownId}

Init ==
    /\ now = 0
    /\ sessions = {}
    /\ heap = [i \in {} |-> NewSession(0)]
    /\ nextId = 1
    /\ calc = NoCall
    /\ xas = XasInit
    /\ tasks = NoTasks
    /\ lastOp = Other
    /\ hs = HsIdle
    /\ rt = RtIdle

Next ==
    \/ Tick
    \/ \E id \in Cookies : GetSession(id)
    \/ \E id \in Cookies : GetOrCreateSession(id)
    \/ \E id \in Cookies : DeleteSession(id)
    \/ CleanupExpiredSessions
    \/ \E s \in DOMAIN heap : AddDataset(s, MgrDataset)
    \/ \E s \in DOMAIN heap : RemoveDataset(s, MgrDataset.filename)
    \/ \E s \in DOMAIN heap :
          \E u \in MgrUpdates : UpdateMetadata(s, MgrDataset.filename, u)
    \/ \E s \in DOMAIN heap : Clear(s)

Spec == Init /\ [][Next]_vars

\* Requests stop arriving early enough for the clock to outrun every session.
AccessHorizon == MaxTime - SESSION_TTL_HOURS - 1

NextLive ==
    \/ Tick
    \/ CleanupExpiredSessions
    \/ /\ now <= AccessHorizon
       /\ \/ \E id \in Cookies : GetSession(id)
          \/ \E id \in Cookies : GetOrCreateSession(id)
          \/ \E id \in Cookies : DeleteSession(id)
          \/ \E s \in DOMAIN heap : AddDataset(s, MgrDataset)
          \/ \E s \in DOMAIN heap : RemoveDataset(s, MgrDataset.filename)
          \/ \E s \in DOMAIN heap :
                \E u \in MgrUpdates :
                    UpdateMetadata(s, MgrDataset.filename, u)
          \/ \E s \in DOMAIN heap : Clear(s)

\* Time advances, and _cleanup_loop (a `while True` around a sleep and a call
\* of cleanup_expired_sessions) keeps being scheduled.
SpecLive ==
    Init /\ [][NextLive]_vars
         /\ WF_vars(Tick) /\ WF_vars(CleanupExpiredSessions)

----------------------------------------------------------------------------
(* Properties of the session manager.                                      *)

\* C3: get_or_create_session(id) returns the stored session with that id,
\* touched and with no cookie issued, exactly when id is a key of the map
\* whose session is not expired; in every other case (None, "", an unknown id,
\* the id of a deleted, reaped or expired session) it returns a session that
\* did not exist before, holds no datasets and has another id than the one
\* presented, the presented id is not a key afterwards, and a cookie is issued.
C3_GetOrCreate ==
    [][lastOp'.op = "get_or_create" =>
        LET id == lastOp'.arg
            r == lastOp'.ret
        IN  IF /\ id \in sessions
               /\ ~(now - heap[id].last_accessed > SESSION_TTL_HOURS)
            THEN /\ r = id
                 /\ sessions' = sessions
                 /\ heap' = [heap EXCEPT ![id].last_accessed = now]
                 /\ ~lastOp'.flag
            ELSE /\ r # id
                 /\ r \notin DOMAIN heap
                 /\ r \in sessions'
                 /\ heap'[r].datasets = EmptyMap
                 /\ heap'[r].file_metadata = EmptyMap
                 /\ id \notin sessions'
                 /\ lastOp'.flag
    ]_vars

\* C3 witness: the id of a session that is no longer in the map was presented
\* and a new session with another id and a new cookie came back.
C3_Witness ==
    /\ lastOp.op = "get_or_create"
    /\ lastOp.arg \in DOMAIN heap
    /\ lastOp.idle = -1
    /\ lastOp.ret # lastOp.arg
    /\ lastOp.ret \in sessions
    /\ lastOp.flag

\* C4 as claimed: a session idle for exactly the TTL is expired: get_session
\* at that instant returns None and removes it, and so does the cleanup.
C4_ExpiredAtExactlyTTL ==
    [][/\ (/\ lastOp'.op = "get_session"
           /\ lastOp'.arg \in sessions
           /\ now - heap[lastOp'.arg].last_accessed = SESSION_TTL_HOURS)
          => (lastOp'.ret = NoneId /\ lastOp'.arg \notin sessions')
       /\ lastOp'.op = "cleanup"
          => \A s \in sessions :
                now - heap[s].last_accessed = SESSION_TTL_HOURS
                => s \notin sessions'
    ]_vars

\* C4 amended: a session idle for exactly the TTL is still live: get_session
\* returns it and touches it, and the cleanup keeps it; a session idle for
\* longer than the TTL is removed by either.
C4_LiveAtExactlyTTL ==
    [][/\ (lastOp'.op = "get_session" /\ lastOp'.arg \in sessions)
          => LET id == lastOp'.arg
                 idle == now - heap[id].last_accessed
             IN  /\ idle <= SESSION_TTL_HOURS
                    => /\ lastOp'.ret = id
                       /\ id \in sessions'
                       /\ heap'[id].last_accessed = now
                 /\ idle > SESSION_TTL_HOURS
                    => (lastOp'.ret = NoneId /\ id \notin sessions')
       /\ lastOp'.op = "cleanup"
          => \A s \in sessions :
                (s \in sessions')
                    <=> (now - heap[s].last_accessed <= SESSION_TTL_HOURS)
    ]_vars

\* C4 witness: get_session found a session idle for exactly the TTL and
\* returned it.
C4_Witness ==
    /\ lastOp.op = "get_session"
    /\ lastOp.idle = SESSION_TTL_HOURS
    /\ lastOp.ret = lastOp.arg
    /\ lastOp.arg \in sessions

\* C5 as claimed: a step that changes a session's datasets or file metadata
\* leaves its last_accessed at the current time, and last_accessed never
\* decreases.
C5_MutationsTouch ==
    [][\A s \in DOMAIN heap :
        /\ (\/ heap'[s].datasets # heap[s].datasets
            \/ heap'[s].file_metadata # heap[s].file_metadata)
           => heap'[s].last_accessed = now'
        /\ heap'[s].last_accessed >= heap[s].last_accessed
    ]_vars

\* C6: once requests have stopped, a session in the map is eventually out of
\* it unless get_session / get_or_create_session returns it again; and an id
\* that left the map is never a key again.
C6_EventualReaping ==
    /\ \A s \in 1 .. MaxSessions :
          (s \in sessions)
            ~> (\/ s \notin sessions
                \/ /\ lastOp.op \in {"get_session", "get_or_create"}
                   /\ lastOp.arg = s
                   /\ lastOp.ret = s)
    /\ [][\A s \in DOMAIN heap : s \notin sessions => s \notin sessions']_vars

\* C6 witness: the background cleanup removed a session.
C6_Witness ==
    /\ lastOp.op = "cleanup"
    /\ lastOp.ret >= 1
    /\ \E s \in DOMAIN heap :
          s \notin sessions /\ now - heap[s].last_accessed > SESSION_TTL_HOURS

\* C7: cleanup_expired_sessions removes exactly the sessions idle for longer
\* than the TTL, changes no session object, and returns how many it removed.
C7_CleanupExact ==
    [][lastOp'.op = "cleanup" =>
        /\ sessions' =
             {s \in sessions :
                ~(now - heap[s].last_accessed > SESSION_TTL_HOURS)}
        /\ heap' = heap
        /\ lastOp'.ret = Cardinality(sessions \ sessions')
    ]_vars

\* C7 witness: one call removed a session and kept another that holds data.
C7_Witness ==
    /\ lastOp.op = "cleanup"
    /\ lastOp.ret >= 1
    /\ \E s \in sessions : heap[s].datasets # EmptyMap

----------------------------------------------------------------------------
(* Export followed by import, for every D and M of the bounded universe.   *)

InitRT ==
    /\ now = 0
    /\ sessions = {}
    /\ heap = [i \in {} |-> NewSession(0)]
    /\ nextId = 1
    /\ calc = NoCall
    /\ xas = XasInit
    /\ tasks = NoTasks
    /\ lastOp = Other
    /\ hs = HsIdle
    /\ rt \in {[RtIdle EXCEPT !.stage = "args", !.datasets = D,
                              !.passed = M, !.file_metadata = M] :
                  D \in RtDatasetLists, M \in RtMetadataMaps}

NextRT ==
    \/ \E include_csv \in BOOLEAN : RtExport(include_csv)
    \/ RtImport

SpecRT == InitRT /\ [][NextRT]_vars

\* C8 as stated: session_import(session_export(D, file_metadata = M)) returns
\* one dataset per element of D, in order, with the filename, columns, row
\* count, technique, label and cycles of that element, and for every file the
\* custom metadata keys and values that M holds for it.
C8_RoundTripAsStated ==
    rt.stage = "imported" =>
        /\ rt.out.ok
        /\ Len(rt.out.datasets) = Len(rt.datasets)
        /\ \A i \in 1 .. Len(rt.datasets) :
              LET d == rt.datasets[i]
                  o == rt.out.datasets[i]
              IN  /\ o.filename = d.filename
                  /\ o.columns = d.columns
                  /\ o.df.columns = d.df.columns
                  /\ o.df.rows = d.df.rows
                  /\ o.technique = d.technique
                  /\ o.cycles = d.cycles
                  /\ o.label = d.label
                  /\ Get(rt.out.file_metadata, d.filename, EmptyMap)
                        = Get(rt.passed, d.filename, EmptyMap)

\* C8, amended: the round trip returns one dataset per element of D, in
\* order, with that element's filename, columns, row count, technique and
\* cycles; its label is M[filename]["label"] when M has that key and the
\* element's own label otherwise; the metadata returned for the file is
\* M[filename] without "label", plus "label" set to that label when the label
\* is neither None nor empty, and the file has no entry when that is empty;
\* no other file has an entry.
C8_RoundTrip ==
    rt.stage = "imported" =>
        /\ rt.out.ok
        /\ Len(rt.out.datasets) = Len(rt.datasets)
        /\ DOMAIN rt.out.file_metadata
              \subseteq {rt.datasets[i].filename : i \in 1 .. Len(rt.datasets)}
        /\ \A i \in 1 .. Len(rt.datasets) :
              LET d == rt.datasets[i]
                  o == rt.out.datasets[i]
                  m == Get(rt.passed, d.filename, EmptyMap)
                  label == IF "label" \in DOMAIN m THEN m["label"] ELSE d.label
                  expected == IF Truthy(label)
                              THEN Put(Drop(m, "label"), "label", label)
                              ELSE Drop(m, "label")
              IN  /\ o.filename = d.filename
                  /\ o.columns = d.columns
                  /\ o.df.columns = d.df.columns
                  /\ o.df.rows = d.df.rows
                  /\ o.technique = d.technique
                  /\ o.cycles = d.cycles
                  /\ o.label = label
                  /\ IF DOMAIN expected = {}
                     THEN d.filename \notin DOMAIN rt.out.file_metadata
                     ELSE /\ d.filename \in DOMAIN rt.out.file_metadata
                          /\ rt.out.file_metadata[d.filename] = expected

\* A round trip of two datasets in which M carries an edited label for a
\* dataset whose own label is another, and a custom column.
C8_Witness ==
    /\ rt.stage = "imported"
    /\ Len(rt.datasets) = 2
    /\ \E i \in 1 .. Len(rt.datasets) :
          LET fn == rt.datasets[i].filename
          IN  /\ fn \in DOMAIN rt.passed
              /\ DOMAIN rt.passed[fn] = {"label", "note"}
              /\ rt.passed[fn]["label"] = "edited"
              /\ rt.datasets[i].label = "run A"
              /\ rt.out.datasets[i].label = "edited"

----------------------------------------------------------------------------
(* Upload and delete requests on one session.                              *)

MaxBatch == 3

\* What read_mpr_bytes / read_gamry_bytes return for a well-formed file.
Parsed(fn, label, mb) ==
    Dataset(fn, label, "CV", <<>>, <<"time_s", "current_A">>,
            DF(<<"time_s", "current_A">>, 1, mb))

FileA == RawFile("a.mpr", ".mpr", 1, TRUE, Parsed("a.mpr", "a", 1))

\* Another file of the same name, with a table that fills the session.
FileHeavyA == RawFile("a.mpr", ".mpr", 1, TRUE, Parsed("a.mpr", "a", 3))

FileB == RawFile("b.mpr", ".mpr", 1, TRUE, Parsed("b.mpr", "b", 1))

FileC == RawFile("c.dta", ".dta", 1, TRUE, Parsed("c.dta", "c", 1))

\* Longer than MAX_FILE_SIZE_MB.
FileBig == RawFile("big.mpr", ".mpr", 3, TRUE, Parsed("big.mpr", "big", 1))

FileTxt == RawFile("notes.txt", ".txt", 1, FALSE, Parsed("notes.txt", "", 0))

\* A file the parser raises on.
FileBad == RawFile("bad.mpr", ".mpr", 1, FALSE, Parsed("bad.mpr", "", 0))

\* A session container of two datasets, one with edited metadata.
ZipBD ==
    ZipFile("s.zip", 1, TRUE,
            session_export(<<Parsed("b.mpr", "b", 1), Parsed("d.mpr", "d", 1)>>,
                           [f \in {"b.mpr"} |->
                               [k \in {"label", "note"} |->
                                   IF k = "label" THEN "edited" ELSE "x"]],
                           FALSE).zip)

UpFiles ==
    {FileA, FileHeavyA, FileB, FileC, FileBig, FileTxt, FileBad, ZipBD}

UpBatches == UNION {[1 .. n -> UpFiles] : n \in 1 .. MaxBatch}

UpNames == {"a.mpr", "b.mpr", "c.dta", "d.mpr"}

\* One client has been handed a session.
InitUp ==
    /\ now = 0
    /\ sessions = {1}
    /\ heap = [i \in {1} |-> NewSession(0)]
    /\ nextId = 2
    /\ calc = NoCall
    /\ xas = XasInit
    /\ tasks = NoTasks
    /\ lastOp = Other
    /\ hs = HsIdle
    /\ rt = RtIdle

\* Requests are processed one at a time.
NextUp ==
    \/ \E files \in UpBatches : StartUpload("h1", 1, files)
    \/ UploadCheck("h1")
    \/ UploadProcess("h1")
    \/ UploadRespond("h1")
    \/ /\ hs["h1"].pc = "idle"
       /\ \E fn \in UpNames : DeleteFile(1, fn)

SpecUp == InitUp /\ [][NextUp]_vars

ConcFiles == {FileA, FileB, FileC}

ConcBatches ==
    {<<f>> : f \in ConcFiles}
        \cup {<<p[1], p[2]>> :
                 p \in {q \in ConcFiles \X ConcFiles : q[1] # q[2]}}

\* Two requests with the same cookie may be in progress at once.
NextConc ==
    \/ \E h \in Handlers : \E files \in ConcBatches : StartUpload(h, 1, files)
    \/ \E h \in Handlers : UploadCheck(h)
    \/ \E h \in Handlers : UploadProcess(h)
    \/ \E h \in Handlers : UploadRespond(h)
    \/ \E fn \in UpNames : DeleteFile(1, fn)

SpecConc == InitUp /\ [][NextConc]_vars

----------------------------------------------------------------------------
(* Properties of the upload handler.                                       *)

\* C1: with requests processed one at a time, every session always holds at
\* most MAX_FILES_PER_SESSION datasets and at most MAX_MEMORY_PER_SESSION_MB,
\* and a step that inserts datasets starts from a session that could take a
\* file, creates no more keys than it had room for, and inserts no more
\* memory than it had free.
C1_QuotaInvariant ==
    /\ [](\A s \in DOMAIN heap :
             /\ file_count(heap[s]) <= MAX_FILES_PER_SESSION
             /\ get_memory_estimate_mb(heap[s]) <= MAX_MEMORY_PER_SESSION_MB)
    /\ [][\A s \in DOMAIN heap :
             LET pre == heap[s].datasets
                 post == heap'[s].datasets
                 ins == {fn \in DOMAIN post :
                            fn \notin DOMAIN pre \/ post[fn] # pre[fn]}
             IN  ins # {} =>
                    /\ can_add_files(heap[s])
                    /\ file_count(heap[s]) + Cardinality(ins \ DOMAIN pre)
                          <= MAX_FILES_PER_SESSION
                    /\ get_memory_estimate_mb(heap[s]) + SumSizes(post, ins)
                          <= MAX_MEMORY_PER_SESSION_MB]_vars

\* A later request has filled a session from a container, next to a file of
\* an earlier request.
C1_Witness ==
    /\ hs["h1"].pc = "done"
    /\ hs["h1"].found # EmptyMap
    /\ ZipBD \in {hs["h1"].files[j] : j \in 1 .. Len(hs["h1"].files)}
    /\ "d.mpr" \in DOMAIN heap[1].datasets
    /\ "d.mpr" \notin DOMAIN hs["h1"].found
    /\ file_count(heap[1]) = MAX_FILES_PER_SESSION

\* C2: no session ever holds more than MAX_FILES_PER_SESSION datasets, also
\* when two upload requests with the same cookie are handled concurrently.
C2_NeverOverLimit ==
    \A s \in DOMAIN heap : file_count(heap[s]) <= MAX_FILES_PER_SESSION

\* C9: a batch of n parseable raw files of admissible size, with pairwise
\* distinct filenames not yet in the session, arriving at a session of
\* k < MAX_FILES_PER_SESSION files with memory to spare for the files that
\* fit: the first min(n, MAX_FILES_PER_SESSION - k) files are added in batch
\* order, each remaining file has one "File limit reached" entry, in batch
\* order, and file_count is min(k + n, MAX_FILES_PER_SESSION) afterwards.
C9_BatchAtLimit ==
    \A h \in Handlers :
        LET hr == hs[h]
            n == Len(hr.files)
            k == Cardinality(DOMAIN hr.found)
            room == MAX_FILES_PER_SESSION - k
            m == IF n < room THEN n ELSE room
            fit == [j \in 1 .. m |-> hr.files[j].dataset]
        IN  ( /\ hr.pc = "done"
              /\ k < MAX_FILES_PER_SESSION
              /\ \A j \in 1 .. n :
                    /\ hr.files[j].ext \in {".mpr", ".dta"}
                    /\ hr.files[j].parses
                    /\ hr.files[j].size_mb <= MAX_FILE_SIZE_MB
                    /\ hr.files[j].name \notin DOMAIN hr.found
              /\ \A i, j \in 1 .. n :
                    i # j => hr.files[i].name # hr.files[j].name
              /\ SumSizes(hr.found, DOMAIN hr.found) + TotalNewMemory(fit, 1)
                    <= MAX_MEMORY_PER_SESSION_MB )
            => /\ hr.status = 200
               /\ hr.added = [j \in 1 .. m |-> hr.files[j].name]
               /\ hr.errors = [j \in 1 .. n - m |->
                                  [file |-> hr.files[m + j].name,
                                   kind |-> "file_limit"]]
               /\ file_count(heap[hr.sid])
                     = IF k + n < MAX_FILES_PER_SESSION
                       THEN k + n ELSE MAX_FILES_PER_SESSION

\* Three new files sent to an empty session: two added, one error.
C9_Witness ==
    /\ hs["h1"].pc = "done"
    /\ hs["h1"].found = EmptyMap
    /\ hs["h1"].files = <<FileA, FileB, FileC>>
    /\ hs["h1"].added = <<"a.mpr", "b.mpr">>
    /\ hs["h1"].errors = <<[file |-> "c.dta", kind |-> "file_limit"]>>
    /\ file_count(heap[1]) = 2

C11_NoSilentDrops ==
    \A h \in Handlers :
        LET hr == hs[h]
            listed == {hr.added[i] : i \in 1 .. Len(hr.added)}
            reported == {hr.errors[i].file : i \in 1 .. Len(hr.errors)}
            kept(fn) == fn \in listed /\ fn \in DOMAIN heap[hr.sid].datasets
        IN  (hr.pc = "done" /\ hr.status = 200) =>
               \A j \in 1 .. Len(hr.files) :
                  LET f == hr.files[j]
                  IN  \/ f.name \in reported
                      \/ /\ f.ext # ".zip"
                         /\ kept(f.name)
                      \/ /\ f.ext = ".zip"
                         /\ \A e \in 1 .. Len(f.zip.metadata) :
                               kept(f.zip.metadata[e].filename)

----------------------------------------------------------------------------
(* Metadata edits on one session (SessionState.update_metadata and the     *)
(* PATCH /files/{filename}/metadata handler).                              *)

MetaNames == {"a.mpr", "b.mpr", "zz.mpr"}

\* A patch: any of the keys "label" and "note", each null or a string.
MetaPatches ==
    {l @@ c :
        l \in {EmptyMap} \cup {[k \in {"label"} |-> v] : v \in {NoneV, "edited"}},
        c \in {EmptyMap} \cup {[k \in {"note"} |-> v] : v \in {NoneV, "x"}}}

\* update_file_metadata: 404 for an unknown file, else the label (when given)
\* and the custom columns (when given) merged into one patch.  custom is a
\* sequence of at most one dict, empty for None.
UpdateFileMetadata(cookie, filename, label, custom) ==
    LET g == GetOrCreateRes(cookie)
        sess == g.hp[g.sid]
        update_dict == (IF Len(custom) > 0 THEN custom[1] ELSE EmptyMap)
                       @@ (IF label # NoneV
                           THEN [k \in {"label"} |-> label] ELSE EmptyMap)
    IN  /\ g.next <= MaxSessions + 1
        /\ sessions' = g.map
        /\ nextId' = g.next
        /\ heap' = IF filename \in DOMAIN sess.datasets
                   THEN [g.hp EXCEPT ![g.sid] =
                            update_metadata(@, filename, update_dict, now)]
                   ELSE g.hp
        /\ lastOp' = Other
        /\ UNCHANGED <<now, hs, rt, xas, calc, tasks>>

NextMeta ==
    \/ Tick
    \/ \E f \in {FileA, FileB} : AddDataset(1, f.dataset)
    \/ \E fn \in MetaNames : RemoveDataset(1, fn)
    \/ \E fn \in MetaNames : \E u \in MetaPatches : UpdateMetadata(1, fn, u)
    \/ \E fn \in MetaNames :
          \E label \in {NoneV, "edited"} :
             \E custom \in {<<>>} \cup {<<u>> : u \in MetaPatches} :
                UpdateFileMetadata(1, fn, label, custom)

SpecMeta == InitUp /\ [][NextMeta]_vars

\* C12: a call update_metadata(filename, patch) leaves the datasets alone and
\* sets last_accessed; for a file of the session, every patch key with a
\* non-null value holds that value afterwards, every patch key with a null
\* value is absent, every other key of the file keeps its value and no key
\* appears from nowhere, and the other files' metadata is as before; for a
\* filename not in the session the metadata is as before.
C12_UpdateMetadataFrame ==
    [][\A fn \in MetaNames : \A u \in MetaPatches :
          UpdateMetadata(1, fn, u) =>
             LET pre == heap[1]
                 post == heap'[1]
             IN  /\ post.datasets = pre.datasets
                 /\ post.last_accessed = now
                 /\ DOMAIN post.file_metadata = DOMAIN pre.file_metadata
                 /\ \A g \in (DOMAIN pre.file_metadata) \ {fn} :
                       post.file_metadata[g] = pre.file_metadata[g]
                 /\ fn \in DOMAIN pre.datasets =>
                       LET m == pre.file_metadata[fn]
                           n == post.file_metadata[fn]
                       IN  /\ \A k \in DOMAIN u :
                                 IF u[k] = NoneV THEN k \notin DOMAIN n
                                 ELSE k \in DOMAIN n /\ n[k] = u[k]
                           /\ \A k \in (DOMAIN m) \ (DOMAIN u) :
                                 k \in DOMAIN n /\ n[k] = m[k]
                           /\ DOMAIN n \subseteq (DOMAIN m) \cup (DOMAIN u)]_vars

\* One file carries an edited label and a custom column set after the session
\* was last read at an earlier hour; the other file's metadata is its own.
C12_Witness ==
    /\ {"a.mpr", "b.mpr"} \subseteq DOMAIN heap[1].datasets
    /\ DOMAIN heap[1].file_metadata["a.mpr"] = {"label", "note"}
    /\ heap[1].file_metadata["a.mpr"]["label"] = "edited"
    /\ heap[1].file_metadata["b.mpr"] = [k \in {"label"} |-> "b"]
    /\ heap[1].last_accessed > 0

----------------------------------------------------------------------------
(* Requests to the XAS router, handled one at a time.                      *)

RoiNames == {"mu_roi"}

ReferenceNames == {"foil"}

\* save_scan_params requests for two scans of one dataset: aligned to the
\* reference, or not aligned.
ScanRequests ==
    {r \in [sample : {"s"}, dataset : {"d1"}, roi : RoiNames,
            scan : {"1.1", "1.2"}, status : {"good"}, aligned : BOOLEAN,
            reference_name : {NoneV} \cup ReferenceNames] :
        r.aligned <=> r.reference_name # NoneV}

NextXas ==
    \/ \E path \in ProjectPaths \cup {MissingPath} :
          \E known \in BOOLEAN : OpenProjectStart(path, known)
    \/ OpenProjectFinish
    \/ CloseProject
    \/ \E name \in RoiNames : SaveRoiConfig(name)
    \/ \E name \in RoiNames : DeleteRoiConfig(name)
    \/ \E r \in ScanRequests : SaveScanParams(r)
    \/ \E name \in ReferenceNames : SaveReference(name)
    \/ \E name \in ReferenceNames : DeleteReference(name)

SpecXas == Init /\ [][NextXas]_vars

\* C13: at most one TinyDB object holds a project file open, and it is the
\* one XASProjectState refers to, in every state, the one between the closing
\* of the previous project and the opening of the next included; a successful
\* open_project leaves exactly the requested project open; and a step writes
\* to a store only if that store is the open project's or the one being
\* opened.
C13_ProjectSingleton ==
    /\ [](/\ \A p, q \in ProjectPaths :
                xas.handles[p] + xas.handles[q] <= IF p = q THEN 2 ELSE 1
          /\ \A p \in ProjectPaths :
                xas.handles[p] = 1 <=> (is_open(xas) /\ xas.db = p))
    /\ [][/\ (xas'.resp.op = "open" /\ xas'.resp.status = 200
                  /\ xas.opening.stage = "closed")
             => /\ is_open(xas')
                /\ xas'.db = xas.opening.path
                /\ xas'.project_path = xas.opening.path
          /\ \A p \in ProjectPaths :
                xas'.stores[p] # xas.stores[p]
                   => \/ is_open(xas) /\ xas.db = p
                      \/ xas.opening.stage = "closed"
                            /\ xas.opening.path = p]_vars

\* P2 is open after P1 was, and a reference saved since is in P2's store and
\* not in P1's.
C13_Witness ==
    /\ is_open(xas)
    /\ xas.db = "P2"
    /\ xas.handles["P1"] = 0
    /\ xas.handles["P2"] = 1
    /\ Len(xas.stores["P1"].datasets) = 1
    /\ Len(xas.stores["P1"].references) = 0
    /\ Len(xas.stores["P2"].references) = 1

\* C14: delete_reference(name) on the open project: when n > 0 scan records
\* have reference_name = name the response is the 400 error carrying n and
\* the store is unchanged; otherwise the scans are unchanged and the
\* references are the old ones without those called name (404 when there was
\* none).
C14_DeleteReferenceInUse ==
    [][(/\ xas'.resp.op = "delete_reference"
        /\ xas.opening.stage = "idle"
        /\ xas'.opening.stage = "idle"
        /\ is_open(xas))
          => LET name == xas'.resp.arg
                 st == xas.stores[xas.db]
                 n == Cardinality({i \in 1 .. Len(st.scans) :
                         "reference_name" \in DOMAIN st.scans[i]
                            /\ st.scans[i]["reference_name"] = name})
                 named == {i \in 1 .. Len(st.references) :
                              st.references[i]["name"] = name}
             IN  IF n > 0
                 THEN /\ xas'.resp.status = 400
                      /\ xas'.resp.n = n
                      /\ xas'.stores = xas.stores
                 ELSE /\ xas'.stores[xas.db].scans = st.scans
                      /\ xas'.stores[xas.db].references
                            = SelectSeq(st.references,
                                        LAMBDA d : d["name"] # name)
                      /\ xas'.resp.status = IF named = {} THEN 404 ELSE 200]_vars

\* A delete refused because two scans are aligned to the reference, which is
\* still stored.
C14_Witness ==
    /\ xas.resp.op = "delete_reference"
    /\ xas.resp.status = 400
    /\ xas.resp.n = 2
    /\ is_open(xas)
    /\ Len(xas.stores[xas.db].references) = 1

\* C15: delete_roi_config(name) on the open project, when a scan record has
\* roi = name, answers with an error and leaves roi_configs as it was.
C15_DeleteRoiInUse ==
    [][(/\ xas'.resp.op = "delete_roi_config"
        /\ xas.opening.stage = "idle"
        /\ xas'.opening.stage = "idle"
        /\ is_open(xas)
        /\ \E i \in 1 .. Len(xas.stores[xas.db].scans) :
              xas.stores[xas.db].scans[i]["roi"] = xas'.resp.arg)
          => /\ xas'.resp.status = 400
             /\ xas'.stores[xas.db].roi_configs
                   = xas.stores[xas.db].roi_configs]_vars

----------------------------------------------------------------------------
(* Dataset transforms (echem_core/transforms.py).  A table with values is  *)
(* the list of its column names and, per column, the list of its values;   *)
(* potentials are in millivolts, currents in milliamperes.                 *)

MaxChain == 2

Table(cols, data) == [columns |-> cols, data |-> data]

\* Reference electrode potentials vs SHE, in millivolts.
REFERENCE_ELECTRODES ==
    [r \in {"SHE", "Ag/AgCl (sat. KCl)", "Ag/AgCl (3M KCl)",
            "Ag/AgCl (3M NaCl)", "SCE", "Hg/HgO (1M NaOH)",
            "Hg/HgO (1M KOH)", "Hg/Hg2SO4 (sat. K2SO4)"} |->
        CASE r = "SHE" -> 0
          [] r = "Ag/AgCl (sat. KCl)" -> 197
          [] r = "Ag/AgCl (3M KCl)" -> 210
          [] r = "Ag/AgCl (3M NaCl)" -> 209
          [] r = "SCE" -> 244
          [] r = "Hg/HgO (1M NaOH)" -> 140
          [] r = "Hg/HgO (1M KOH)" -> 98
          [] OTHER -> 654]

\* f"potential_vs_{to_ref.replace(' ', '_').replace('(', '').replace(')', '')}_V"
RefColumn(to_ref) ==
    CASE to_ref = "SHE" -> "potential_vs_SHE_V"
      [] to_ref = "Ag/AgCl (sat. KCl)" -> "potential_vs_Ag/AgCl_sat._KCl_V"
      [] to_ref = "Ag/AgCl (3M KCl)" -> "potential_vs_Ag/AgCl_3M_KCl_V"
      [] to_ref = "Ag/AgCl (3M NaCl)" -> "potential_vs_Ag/AgCl_3M_NaCl_V"
      [] to_ref = "SCE" -> "potential_vs_SCE_V"
      [] to_ref = "Hg/HgO (1M NaOH)" -> "potential_vs_Hg/HgO_1M_NaOH_V"
      [] to_ref = "Hg/HgO (1M KOH)" -> "potential_vs_Hg/HgO_1M_KOH_V"
      [] OTHER -> "potential_vs_Hg/Hg2SO4_sat._K2SO4_V"

\* df.with_columns(expr.alias(name)): a column of that name is replaced
\* where it stands, a new name is appended.
WithColumn(df, name, values) ==
    IF name \in DOMAIN df.data
    THEN [df EXCEPT !.data[name] = values]
    ELSE [columns |-> Append(df.columns, name),
          data |-> [c \in (DOMAIN df.data) \cup {name} |->
                       IF c = name THEN values ELSE df.data[c]]]

\* _copy_dataset
CopyDataset(dataset, new_df) ==
    [dataset EXCEPT !.df = new_df, !.columns = new_df.columns]

\* A transform that raised.
Raised(dataset) == [ok |-> FALSE, ds |-> dataset]

Returned(dataset) == [ok |-> TRUE, ds |-> dataset]

convert_reference(dataset, from_ref, to_ref, column) ==
    IF from_ref \notin DOMAIN REFERENCE_ELECTRODES
          \/ to_ref \notin DOMAIN REFERENCE_ELECTRODES
          \/ column \notin DOMAIN dataset.df.data
    THEN Raised(dataset)
    ELSE LET offset == REFERENCE_ELECTRODES[from_ref]
                          - REFERENCE_ELECTRODES[to_ref]
             src == dataset.df.data[column]
         IN  Returned(CopyDataset(dataset,
                 WithColumn(dataset.df, RefColumn(to_ref),
                            [i \in 1 .. Len(src) |-> src[i] + offset])))

ir_compensate(dataset, resistance_ohm, v_col, i_col) ==
    IF {v_col, i_col} \subseteq DOMAIN dataset.df.data
    THEN LET v == dataset.df.data[v_col]
             c == dataset.df.data[i_col]
         IN  Returned(CopyDataset(dataset,
                 WithColumn(dataset.df, "potential_ir_corrected_V",
                            [i \in 1 .. Len(v) |-> v[i] - c[i] * resistance_ohm])))
    ELSE Raised(dataset)

\* pl.col(column) / x, for the exact quotients the sample values give.
DivideColumn(dataset, column, x, new_col) ==
    IF column \in DOMAIN dataset.df.data
    THEN LET src == dataset.df.data[column]
         IN  Returned(CopyDataset(dataset,
                 WithColumn(dataset.df, new_col,
                            [i \in 1 .. Len(src) |-> src[i] \div x])))
    ELSE Raised(dataset)

normalize_by_area(dataset, area_cm2, column) ==
    DivideColumn(dataset, column, area_cm2, "current_density_A_cm2")

normalize_by_mass(dataset, mass_g, column) ==
    DivideColumn(dataset, column, mass_g, "current_A_g")

\* df.filter(pl.col(cycle_col) == cycle)
filter_by_cycle(df, cycle, cycle_col) ==
    IF cycle_col \notin DOMAIN df.data THEN df
    ELSE LET keep(i) == df.data[cycle_col][i] = cycle
             rows == 1 .. Len(df.data[cycle_col])
             Pick(col) ==
                 LET RECURSIVE From(_)
                     From(i) == IF i > Len(col) THEN <<>>
                                ELSE IF keep(i) THEN <<col[i]>> \o From(i + 1)
                                ELSE From(i + 1)
                 IN  From(1)
         IN  [df EXCEPT !.data = [c \in DOMAIN df.data |-> Pick(df.data[c])]]

filter_dataset_by_cycle(dataset, cycle, cycle_col) ==
    Returned(CopyDataset(dataset, filter_by_cycle(dataset.df, cycle, cycle_col)))

----------------------------------------------------------------------------
(* The parsers (echem_core/parsers).  A source table is what galvani or    *)
(* the CURVE TABLE reader hands over: source column names and values.      *)
(* Values are fixed-point numbers, in thousandths.                         *)

MaxCols == 3

\* The canonical registry (STANDARD_COLUMNS).
STANDARD_COLUMNS ==
    {"time_s", "potential_V", "current_A", "z_real_Ohm", "z_imag_Ohm",
     "z_mag_Ohm", "z_phase_deg", "frequency_Hz", "cycle"}

\* source column -> <<standard name, source unit, target unit>>
BIOLOGIC_COLUMN_MAP ==
    [c \in {"time/s", "Ewe/V", "<I>/mA", "Re(Z)/Ohm", "-Im(Z)/Ohm",
            "|Z|/Ohm", "Phase(Z)/deg", "freq/Hz", "cycle number"} |->
        CASE c = "time/s" -> <<"time_s", "second", "second">>
          [] c = "Ewe/V" -> <<"potential_V", "volt", "volt">>
          [] c = "<I>/mA" -> <<"current_A", "milliampere", "ampere">>
          [] c = "Re(Z)/Ohm" -> <<"z_real_Ohm", "ohm", "ohm">>
          [] c = "-Im(Z)/Ohm" -> <<"z_imag_Ohm", "ohm", "ohm">>
          [] c = "|Z|/Ohm" -> <<"z_mag_Ohm", "ohm", "ohm">>
          [] c = "Phase(Z)/deg" -> <<"z_phase_deg", "degree", "degree">>
          [] c = "freq/Hz" -> <<"frequency_Hz", "hertz", "hertz">>
          [] OTHER -> <<"cycle", NoneV, NoneV>>]

GAMRY_COLUMN_MAP ==
    [c \in {"T", "Time", "Vf", "V", "E", "Im", "I", "Zreal", "Zimag", "Zmod",
            "Zphz", "Freq", "Cycle"} |->
        CASE c \in {"T", "Time"} -> <<"time_s", "second", "second">>
          [] c \in {"Vf", "V", "E"} -> <<"potential_V", "volt", "volt">>
          [] c \in {"Im", "I"} -> <<"current_A", "ampere", "ampere">>
          [] c = "Zreal" -> <<"z_real_Ohm", "ohm", "ohm">>
          [] c = "Zimag" -> <<"z_imag_Ohm", "ohm", "ohm">>
          [] c = "Zmod" -> <<"z_mag_Ohm", "ohm", "ohm">>
          [] c = "Zphz" -> <<"z_phase_deg", "degree", "degree">>
          [] c = "Freq" -> <<"frequency_Hz", "hertz", "hertz">>
          [] OTHER -> <<"cycle", NoneV, NoneV>>]

\* pl.col(col) * convert_units(1.0, source_unit, target_unit): the one
\* conversion the maps ask for is milliampere to ampere.
Converted(values, source_unit, target_unit) ==
    IF source_unit # NoneV /\ target_unit # NoneV /\ source_unit # target_unit
    THEN [i \in 1 .. Len(values) |-> values[i] \div 1000]
    ELSE values

\* The loop with a later source column taking the place of an earlier one.
RECURSIVE StandardizeLastWins(_, _, _, _, _)
StandardizeLastWins(df, map, skip_seen, i, acc) ==
    IF i > Len(df.columns) THEN acc
    ELSE LET col == df.columns[i]
         IN  IF col \notin DOMAIN map
             THEN StandardizeLastWins(df, map, skip_seen, i + 1,
                                      Append(acc, <<col, df.data[col]>>))
             ELSE LET e == <<map[col][1],
                             Converted(df.data[col], map[col][2], map[col][3])>>
                  IN  IF skip_seen /\ \E j \in 1 .. Len(acc) : acc[j][1] = e[1]
                      THEN StandardizeLastWins(df, map, skip_seen, i + 1,
                               [j \in 1 .. Len(acc) |->
                                   IF acc[j][1] = e[1] THEN e ELSE acc[j]])
                      ELSE StandardizeLastWins(df, map, skip_seen, i + 1,
                                               Append(acc, e))

\* The loop of standardize_dataframe over df.columns: the expressions
\* selected so far, as <<output name, values>>.  skip_seen is the Gamry
\* parser's processed_standards check.
RECURSIVE Standardize(_, _, _, _, _)
Standardize(df, map, skip_seen, i, acc) ==
    IF i > Len(df.columns) THEN acc
    ELSE LET col == df.columns[i]
             seen == {acc[j][1] : j \in 1 .. Len(acc)}
         IN  IF col \notin DOMAIN map
             THEN Standardize(df, map, skip_seen, i + 1,
                              Append(acc, <<col, df.data[col]>>))
             ELSE IF skip_seen /\ map[col][1] \in
                        {map[df.columns[j]][1] :
                            j \in {k \in 1 .. i - 1 : df.columns[k] \in DOMAIN map}}
             THEN Standardize(df, map, skip_seen, i + 1, acc)
             ELSE Standardize(df, map, skip_seen, i + 1,
                      Append(acc, <<map[col][1],
                                    Converted(df.data[col], map[col][2],
                                              map[col][3])>>))

\* df.select(new_columns): polars refuses two outputs of one name.
Select(exprs) ==
    IF \E i, j \in 1 .. Len(exprs) : i # j /\ exprs[i][1] = exprs[j][1]
    THEN [ok |-> FALSE, df |-> Table(<<>>, EmptyMap)]
    ELSE [ok |-> TRUE,
          df |-> Table([i \in 1 .. Len(exprs) |-> exprs[i][1]],
                       [c \in {exprs[i][1] : i \in 1 .. Len(exprs)} |->
                           exprs[CHOOSE i \in 1 .. Len(exprs) :
                                    exprs[i][1] = c][2]])]

standardize_dataframe(df, map, skip_seen) ==
    Select(Standardize(df, map, skip_seen, 1, <<>>))

\* sorted(df["cycle"].unique().to_list())
RECURSIVE SortedSet(_)
SortedSet(S) ==
    IF S = {} THEN <<>>
    ELSE LET m == CHOOSE x \in S : \A y \in S : x <= y
         IN  <<m>> \o SortedSet(S \ {m})

DetectCycles(df) ==
    IF "cycle" \in DOMAIN df.data
    THEN SortedSet({df.data["cycle"][i] : i \in 1 .. Len(df.data["cycle"])})
    ELSE <<>>

\* read_mpr_file on the table galvani decoded.
read_mpr_file(filename, source) ==
    LET r == standardize_dataframe(source, BIOLOGIC_COLUMN_MAP, FALSE)
    IN  IF r.ok
        THEN Returned(Dataset(filename, "a", "CV", DetectCycles(r.df),
                              r.df.columns, r.df))
        ELSE Raised(Dataset(filename, NoneV, NoneV, <<>>, <<>>, source))

\* read_gamry_file on the concatenated CURVE TABLE blocks; curve_of_row is
\* the number of the block a row came from, which read_gamry_curve_at_line
\* writes into a Cycle column when the block has none.
read_gamry_file(filename, source, curve_of_row) ==
    LET df == IF "Cycle" \in DOMAIN source.data THEN source
              ELSE WithColumn(source, "Cycle", curve_of_row)
        r == standardize_dataframe(df, GAMRY_COLUMN_MAP, TRUE)
    IN  IF r.ok
        THEN Returned(Dataset(filename, "a", "CV", DetectCycles(r.df),
                              r.df.columns, r.df))
        ELSE Raised(Dataset(filename, NoneV, NoneV, <<>>, <<>>, source))

----------------------------------------------------------------------------
(* Parsing one file: the source table is drawn from the column pools.      *)

GamryPool == {"T", "Vf", "V", "Im", "Cycle", "Pt"}

BiologicPool == {"time/s", "Ewe/V", "<I>/mA", "cycle number", "mode", "cycle"}

\* Three rows per source column; every source column has its own values.
SourceValues(name) ==
    CASE name \in {"T", "time/s"} -> <<0, 1000, 2000>>
      [] name \in {"Vf", "Ewe/V"} -> <<100, 200, 300>>
      [] name = "V" -> <<110, 210, 310>>
      [] name = "Im" -> <<4000, 8000, -4000>>
      [] name = "<I>/mA" -> <<4000000, 8000000, -4000000>>
      [] name \in {"Cycle", "cycle number", "cycle"} -> <<2, 1, 2>>
      [] OTHER -> <<7, 7, 7>>

CurveOfRow == <<1, 1, 2>>

RECURSIVE DistinctSeqs(_, _)
DistinctSeqs(pool, n) ==
    IF n = 0 THEN {<<>>}
    ELSE LET shorter == DistinctSeqs(pool, n - 1)
         IN  shorter \cup
             {Append(q, c) : q \in {r \in shorter : Len(r) = n - 1},
                             c \in pool} 

SourceTable(cols) ==
    Table(cols, [c \in {cols[i] : i \in 1 .. Len(cols)} |-> SourceValues(c)])

IsDistinct(q) == \A i, j \in 1 .. Len(q) : i # j => q[i] # q[j]

SourcesOf(pool) ==
    {SourceTable(q) : q \in {r \in DistinctSeqs(pool, MaxCols) :
                                Len(r) > 0 /\ IsDistinct(r)}}

ReadGamryFile ==
    /\ calc.stage = "source"
    /\ calc.parser = "gamry"
    /\ calc' = [stage |-> "parsed", parser |-> "gamry", source |-> calc.source,
                res |-> read_gamry_file("a.dta", calc.source, CurveOfRow)]
    /\ UNCHANGED <<now, sessions, heap, nextId, lastOp, hs, rt, xas, tasks>>

ReadMprFile ==
    /\ calc.stage = "source"
    /\ calc.parser = "biologic"
    /\ calc' = [stage |-> "parsed", parser |-> "biologic",
                source |-> calc.source,
                res |-> read_mpr_file("a.mpr", calc.source)]
    /\ UNCHANGED <<now, sessions, heap, nextId, lastOp, hs, rt, xas, tasks>>

InitParse ==
    /\ now = 0
    /\ sessions = {}
    /\ heap = [i \in {} |-> NewSession(0)]
    /\ nextId = 1
    /\ lastOp = Other
    /\ hs = HsIdle
    /\ rt = RtIdle
    /\ xas = XasInit
    /\ tasks = NoTasks
    /\ calc \in {[stage |-> "source", parser |-> "gamry", source |-> t] :
                    t \in SourcesOf(GamryPool)}
           \cup {[stage |-> "source", parser |-> "biologic", source |-> t] :
                    t \in SourcesOf(BiologicPool)}

NextParse == ReadGamryFile \/ ReadMprFile

SpecParse == InitParse /\ [][NextParse]_vars

----------------------------------------------------------------------------
(* Transforms applied, one after another, to a parsed dataset.             *)

TfDatasets ==
    {read_gamry_file("a.dta", SourceTable(<<"T", "Vf", "Im">>), CurveOfRow).ds,
     read_mpr_file("a.mpr",
         SourceTable(<<"Ewe/V", "<I>/mA", "cycle number">>)).ds,
     read_mpr_file("b.mpr", SourceTable(<<"Ewe/V", "<I>/mA">>)).ds}

TfRefs == {"SHE", "SCE", "Ag/AgCl (sat. KCl)", "RHE"}

\* The caller keeps its dataset when a transform raises.
Applied(op, res) ==
    /\ calc.stage = "tf"
    /\ calc.depth < MaxChain
    /\ calc' = [stage |-> "tf", op |-> op, input |-> calc.out,
                out |-> IF res.ok THEN res.ds ELSE calc.out,
                ok |-> res.ok, depth |-> calc.depth + 1]
    /\ UNCHANGED <<now, sessions, heap, nextId, lastOp, hs, rt, xas, tasks>>

ConvertReference ==
    \E from_ref \in TfRefs, to_ref \in TfRefs :
        Applied("convert_reference",
                convert_reference(calc.out, from_ref, to_ref, "potential_V"))

IrCompensate ==
    \E r \in {1, 2} :
        Applied("ir_compensate",
                ir_compensate(calc.out, r, "potential_V", "current_A"))

NormalizeByArea ==
    \E a \in {1, 2} :
        Applied("normalize_by_area", normalize_by_area(calc.out, a, "current_A"))

NormalizeByMass ==
    \E m \in {1, 2} :
        Applied("normalize_by_mass", normalize_by_mass(calc.out, m, "current_A"))

FilterDatasetByCycle ==
    \E c \in {1, 2, 3} :
        Applied("filter_dataset_by_cycle",
                filter_dataset_by_cycle(calc.out, c, "cycle"))

InitTf ==
    /\ now = 0
    /\ sessions = {}
    /\ heap = [i \in {} |-> NewSession(0)]
    /\ nextId = 1
    /\ lastOp = Other
    /\ hs = HsIdle
    /\ rt = RtIdle
    /\ xas = XasInit
    /\ tasks = NoTasks
    /\ calc \in {[stage |-> "tf", op |-> "none", input |-> d, out |-> d,
                  ok |-> TRUE, depth |-> 0] : d \in TfDatasets}

NextTf ==
    \/ ConvertReference
    \/ IrCompensate
    \/ NormalizeByArea
    \/ NormalizeByMass
    \/ FilterDatasetByCycle

SpecTf == InitTf /\ [][NextTf]_vars

ColumnTransforms ==
    {"convert_reference", "ir_compensate", "normalize_by_area",
     "normalize_by_mass"}

\* C16: after convert_reference, ir_compensate, normalize_by_area or
\* normalize_by_mass has returned, every column of its input dataset is in
\* the output with the same values.
C16_InputColumnsKept ==
    (calc.op \in ColumnTransforms /\ calc.ok) =>
        \A c \in DOMAIN calc.input.df.data :
            /\ c \in DOMAIN calc.out.df.data
            /\ calc.out.df.data[c] = calc.input.df.data[c]

\* C17: a dataset whose table has a cycle column lists in cycles the
\* sorted distinct values of that column.
C17_CyclesMatchColumn ==
    "cycle" \in DOMAIN calc.out.df.data =>
        calc.out.cycles = DetectCycles(calc.out.df)

\* The table the parser standardizes, and the map it uses.
ParsedSource ==
    IF calc.parser = "gamry" /\ "Cycle" \notin DOMAIN calc.source.data
    THEN WithColumn(calc.source, "Cycle", CurveOfRow)
    ELSE calc.source

ParsedMap ==
    IF calc.parser = "gamry" THEN GAMRY_COLUMN_MAP ELSE BIOLOGIC_COLUMN_MAP

ParsedOk == calc.stage = "parsed" /\ calc.res.ok

NoDuplicates(q) == \A i, j \in 1 .. Len(q) : i # j => q[i] # q[j]

----------------------------------------------------------------------------
(* The EC analysis functions (echem_core/analysis).  A table has a set of  *)
(* columns and rows that give a whole number for every column.  A result   *)
(* is None, a raised exception, or a number held as a reduced fraction.    *)

MaxRows == 3

Abs(n) == IF n < 0 THEN 0 - n ELSE n

RECURSIVE Gcd(_, _)
Gcd(a, b) == IF b = 0 THEN a ELSE Gcd(b, a % b)

ReturnedNone == [kind |-> "none", num |-> 0, den |-> 1]

RaisedError == [kind |-> "raise", num |-> 0, den |-> 1]

\* float(n / d), d # 0
Number(n, d) ==
    LET g == Gcd(Abs(n), Abs(d))
        sgn == IF d < 0 THEN -1 ELSE 1
    IN  [kind |-> "value", num |-> sgn * (n \div g), den |-> sgn * (d \div g)]

Column(df, name) == [i \in 1 .. Len(df.rows) |-> df.rows[i][name]]

RECURSIVE SumSeq(_)
SumSeq(q) == IF q = <<>> THEN 0 ELSE Head(q) + SumSeq(Tail(q))

\* Series.mean() of a non-empty column
Mean(q) == Number(SumSeq(q), Len(q))

\* np.argmin / np.argmax: the first index of the extreme value
ArgMin(q) == CHOOSE i \in 1 .. Len(q) :
                 /\ \A j \in 1 .. Len(q) : q[i] <= q[j]
                 /\ \A j \in 1 .. i - 1 : q[j] > q[i]

\* np.argsort(re_z): a permutation that puts re_z in ascending order.  The
\* default sort kind is not a stable one, so the order of equal keys is
\* whatever the build's sort gives.
ArgSorts(q) ==
    {o \in [1 .. Len(q) -> 1 .. Len(q)] :
        /\ \A i, j \in 1 .. Len(q) : i # j => o[i] # o[j]
        /\ \A i \in 1 .. Len(q) - 1 : q[o[i]] <= q[o[i + 1]]}

\* The order a stable sort gives.
StableArgSort(q) ==
    CHOOSE o \in ArgSorts(q) :
        \A i \in 1 .. Len(q) - 1 : q[o[i]] = q[o[i + 1]] => o[i] < o[i + 1]

\* The scan of find_hf_intercept / find_lf_intercept over the sorted arrays.
Intercept(re_z, neg_im_z) ==
    LET n == Len(neg_im_z)
        crossings == {i \in 1 .. n - 1 : neg_im_z[i] * neg_im_z[i + 1] < 0}
    IN  IF crossings # {}
        THEN LET i == CHOOSE k \in crossings : \A m \in crossings : k <= m
                 dy == neg_im_z[i + 1] - neg_im_z[i]
             IN  Number(re_z[i] * dy - neg_im_z[i] * (re_z[i + 1] - re_z[i]), dy)
        ELSE IF n = 0 THEN RaisedError
        ELSE LET k == ArgMin([i \in 1 .. n |-> Abs(neg_im_z[i])])
             IN  IF Abs(neg_im_z[k]) < 1 THEN Number(re_z[k], 1)
                 ELSE ReturnedNone

\* find_hf_intercept, with the order argsort returned.
find_hf_intercept(df, order) ==
    IF ~ {"z_real_Ohm", "z_imag_Ohm"} \subseteq df.columns THEN ReturnedNone
    ELSE LET re_z == Column(df, "z_real_Ohm")
             im_z == Column(df, "z_imag_Ohm")
             n == Len(re_z)
         IN  Intercept([i \in 1 .. n |-> re_z[order[i]]],
                       [i \in 1 .. n |-> 0 - im_z[order[i]]])

\* find_lf_intercept: the same scan in descending order ([::-1]).
find_lf_intercept(df, order) ==
    IF ~ {"z_real_Ohm", "z_imag_Ohm"} \subseteq df.columns THEN ReturnedNone
    ELSE LET re_z == Column(df, "z_real_Ohm")
             im_z == Column(df, "z_imag_Ohm")
             n == Len(re_z)
         IN  Intercept([i \in 1 .. n |-> re_z[order[n + 1 - i]]],
                       [i \in 1 .. n |-> 0 - im_z[order[n + 1 - i]]])

calculate_time_average(df, column, t_start, t_end, time_col) ==
    IF ~ {time_col, column} \subseteq df.columns THEN ReturnedNone
    ELSE LET InRange(r) == r[time_col] >= t_start /\ r[time_col] <= t_end
             filtered == SelectSeq(df.rows, InRange)
         IN  IF Len(filtered) = 0 THEN ReturnedNone
             ELSE Mean([i \in 1 .. Len(filtered) |-> filtered[i][column]])

\* np.trapz(current, time)
calculate_charge(df, time_col, current_col) ==
    IF ~ {time_col, current_col} \subseteq df.columns THEN ReturnedNone
    ELSE LET time == Column(df, time_col)
             current == Column(df, current_col)
         IN  IF Len(time) < 2 THEN ReturnedNone
             ELSE Number(SumSeq([i \in 1 .. Len(time) - 1 |->
                             (time[i + 1] - time[i])
                                 * (current[i] + current[i + 1])]), 2)

overpotential_at_current(df, target_current_A, equilibrium_V, potential_col, current_col) ==
    IF ~ {potential_col, current_col} \subseteq df.columns THEN ReturnedNone
    ELSE LET current == Column(df, current_col)
             potential == Column(df, potential_col)
         IN  IF Len(current) = 0 THEN ReturnedNone
             ELSE LET idx == ArgMin([i \in 1 .. Len(current) |->
                                        Abs(current[i] - target_current_A)])
                  IN  Number(Abs(potential[idx] - equilibrium_V), 1)

onset_potential(df, threshold_current_A, potential_col, current_col) ==
    IF ~ {potential_col, current_col} \subseteq df.columns THEN ReturnedNone
    ELSE LET potential == Column(df, potential_col)
             current == Column(df, current_col)
             above == {i \in 1 .. Len(current) :
                          Abs(current[i]) > Abs(threshold_current_A)}
         IN  IF above = {} THEN ReturnedNone
             ELSE Number(potential[CHOOSE i \in above :
                                      \A j \in above : i <= j], 1)

\* window_frac is in tenths: int(len(current) * window_frac)
limiting_current(df, current_col, window_tenths) ==
    IF current_col \notin df.columns THEN ReturnedNone
    ELSE LET current == Column(df, current_col)
             len == Len(current)
         IN  IF len = 0 THEN ReturnedNone
             ELSE LET k == (len * window_tenths) \div 10
                      n_points == IF k < 1 THEN 1 ELSE k
                  IN  Mean(SubSeq(current, len - n_points + 1, len))

current_at_potential(df, potential_V, potential_col, current_col) ==
    IF ~ {potential_col, current_col} \subseteq df.columns THEN ReturnedNone
    ELSE LET potential == Column(df, potential_col)
             current == Column(df, current_col)
         IN  IF \/ Len(potential) = 0
                \/ \A i \in 1 .. Len(potential) : potential_V < potential[i]
                \/ \A i \in 1 .. Len(potential) : potential_V > potential[i]
             THEN ReturnedNone
             ELSE Number(current[ArgMin([i \in 1 .. Len(potential) |->
                                     Abs(potential[i] - potential_V)])], 1)

steady_state_potential(df, window_s, time_col, potential_col) ==
    IF ~ {time_col, potential_col} \subseteq df.columns THEN ReturnedNone
    ELSE IF Len(df.rows) = 0 THEN ReturnedNone
    ELSE LET time == Column(df, time_col)
             t_max == CHOOSE t \in {time[i] : i \in 1 .. Len(time)} :
                          \A i \in 1 .. Len(time) : time[i] <= t
             Late(r) == r[time_col] >= t_max - window_s
             filtered == SelectSeq(df.rows, Late)
         IN  IF Len(filtered) = 0 THEN ReturnedNone
             ELSE Mean([i \in 1 .. Len(filtered) |-> filtered[i][potential_col]])

----------------------------------------------------------------------------
(* Calls of the analysis functions on tables with any subset of the        *)
(* canonical columns and up to MaxRows rows.                               *)

EcColumns == {"time_s", "potential_V", "current_A", "z_real_Ohm", "z_imag_Ohm"}

EcRow(t, v, c, re, im) ==
    [time_s |-> t, potential_V |-> v, current_A |-> c, z_real_Ohm |-> re,
     z_imag_Ohm |-> im]

EcBaseRows == {EcRow(0, 1, 2, 1, 1), EcRow(1, 3, -4, 1, -3), EcRow(2, 2, 6, 0, 0)}

RECURSIVE SeqsUpTo(_, _)
SeqsUpTo(S, n) ==
    IF n = 0 THEN {<<>>}
    ELSE LET shorter == SeqsUpTo(S, n - 1)
         IN  shorter \cup {Append(q, x) : q \in {r \in shorter : Len(r) = n - 1},
                                         x \in S}

\* The rows of a table carry its columns only.
EcTable(cols, rows) ==
    [columns |-> cols,
     rows |-> [i \in 1 .. Len(rows) |-> [c \in cols |-> rows[i][c]]]]

EcTables ==
    {EcTable(cols, rows) : cols \in SUBSET EcColumns,
                           rows \in SeqsUpTo(EcBaseRows, MaxRows)}

ArgSortsOf(df, col) ==
    IF col \in df.columns THEN ArgSorts(Column(df, col)) ELSE {<<>>}

Called(fn, required, res) ==
    /\ calc.stage = "table"
    /\ calc' = [stage |-> "result", fn |-> fn, df |-> calc.df,
                required |-> required, res |-> res]
    /\ UNCHANGED <<now, sessions, heap, nextId, lastOp, hs, rt, xas, tasks>>

FindHfIntercept ==
    \E order \in ArgSortsOf(calc.df, "z_real_Ohm") :
        Called("find_hf_intercept", {"z_real_Ohm", "z_imag_Ohm"},
               find_hf_intercept(calc.df, order))

FindLfIntercept ==
    \E order \in ArgSortsOf(calc.df, "z_real_Ohm") :
        Called("find_lf_intercept", {"z_real_Ohm", "z_imag_Ohm"},
               find_lf_intercept(calc.df, order))

CalculateTimeAverage ==
    \E column \in {"current_A", "potential_V"}, w \in {<<0, 1>>, <<5, 6>>} :
        Called("calculate_time_average", {"time_s", column},
               calculate_time_average(calc.df, column, w[1], w[2], "time_s"))

CalculateCharge ==
    Called("calculate_charge", {"time_s", "current_A"},
           calculate_charge(calc.df, "time_s", "current_A"))

OverpotentialAtCurrent ==
    \E target \in {2, 5} :
        Called("overpotential_at_current", {"potential_V", "current_A"},
               overpotential_at_current(calc.df, target, 0, "potential_V",
                                        "current_A"))

OnsetPotential ==
    \E threshold \in {3, 9} :
        Called("onset_potential", {"potential_V", "current_A"},
               onset_potential(calc.df, threshold, "potential_V", "current_A"))

LimitingCurrent ==
    Called("limiting_current", {"current_A"},
           limiting_current(calc.df, "current_A", 1))

CurrentAtPotential ==
    \E potential_V \in {2, 9} :
        Called("current_at_potential", {"potential_V", "current_A"},
               current_at_potential(calc.df, potential_V, "potential_V",
                                    "current_A"))

SteadyStatePotential ==
    Called("steady_state_potential", {"time_s", "potential_V"},
           steady_state_potential(calc.df, 1, "time_s", "potential_V"))

InitEc ==
    /\ now = 0
    /\ sessions = {}
    /\ heap = [i \in {} |-> NewSession(0)]
    /\ nextId = 1
    /\ lastOp = Other
    /\ hs = HsIdle
    /\ rt = RtIdle
    /\ xas = XasInit
    /\ tasks = NoTasks
    /\ calc \in {[stage |-> "table", df |-> t] : t \in EcTables}

NextEc ==
    \/ FindHfIntercept
    \/ FindLfIntercept
    \/ CalculateTimeAverage
    \/ CalculateCharge
    \/ OverpotentialAtCurrent
    \/ OnsetPotential
    \/ LimitingCurrent
    \/ CurrentAtPotential
    \/ SteadyStatePotential

SpecEc == InitEc /\ [][NextEc]_vars

\* C19: an analysis function called on a table that lacks a column it
\* requires, or that has no rows, returns None and does not raise.
C19_NoneOnMissingInput ==
    (/\ calc.stage = "result"
     /\ \/ ~ calc.required \subseteq calc.df.columns
        \/ Len(calc.df.rows) = 0)
        => calc.res.kind = "none"

----------------------------------------------------------------------------
(* find_hf_intercept on a table and on a reordering of its rows.           *)

HfRows == {[z_real_Ohm |-> x, z_imag_Ohm |-> y] : x \in {0, 1}, y \in {-1, 0, 3}}

HfTables ==
    {EcTable({"z_real_Ohm", "z_imag_Ohm"}, rows) :
        rows \in SeqsUpTo(HfRows, MaxRows)}

Perms(n) ==
    {q \in [1 .. n -> 1 .. n] : \A i, j \in 1 .. n : i # j => q[i] # q[j]}

Permuted(df, q) ==
    [df EXCEPT !.rows = [i \in 1 .. Len(df.rows) |-> df.rows[q[i]]]]

FindHfInterceptTwice ==
    /\ calc.stage = "tables"
    /\ \E o1 \in ArgSortsOf(calc.df, "z_real_Ohm"),
          o2 \in ArgSortsOf(calc.reordered, "z_real_Ohm") :
          calc' = [stage |-> "compared", df |-> calc.df,
                   reordered |-> calc.reordered,
                   stable |-> /\ o1 = StableArgSort(Column(calc.df, "z_real_Ohm"))
                              /\ o2 = StableArgSort(Column(calc.reordered,
                                                           "z_real_Ohm")),
                   res |-> find_hf_intercept(calc.df, o1),
                   res_reordered |-> find_hf_intercept(calc.reordered, o2)]
    /\ UNCHANGED <<now, sessions, heap, nextId, lastOp, hs, rt, xas, tasks>>

InitHf ==
    /\ now = 0
    /\ sessions = {}
    /\ heap = [i \in {} |-> NewSession(0)]
    /\ nextId = 1
    /\ lastOp = Other
    /\ hs = HsIdle
    /\ rt = RtIdle
    /\ xas = XasInit
    /\ tasks = NoTasks
    /\ calc \in UNION {{[stage |-> "tables", df |-> t,
                           reordered |-> Permuted(t, q)] :
                              q \in Perms(Len(t.rows))} : t \in HfTables}

NextHf == FindHfInterceptTwice

SpecHf == InitHf /\ [][NextHf]_vars

\* C20: find_hf_intercept returns the same result on a table and on every
\* reordering of its rows.
C20_PermutationInvariant ==
    calc.stage = "compared" => calc.res = calc.res_reordered

----------------------------------------------------------------------------
(* Technique and label from a BioLogic filename.  A filename is its stem,  *)
(* held as the list of its underscore-separated parts, followed by .mpr.   *)

MaxParts == 4

\* TECHNIQUE_MAP.values(), in the order of the dict
TechniqueAbbrevs ==
    <<"CA", "CA", "CC", "CP", "CV", "LSV", "OCV", "OCP", "PEIS", "GEIS", "EIS",
      "CC", "CV", "ZIR">>

KnownTechniques == {TechniqueAbbrevs[i] : i \in 1 .. Len(TechniqueAbbrevs)}

\* Character classes of the sample parts: \d{2}, C\d+ and [A-Z]+.
TwoDigits == {"01", "12"}

ChannelTag == {"C02"}

UpperWord == KnownTechniques \cup {"XY", "C"}

NameParts == {"CA", "PEIS", "XY", "sample", "01", "C02"}

\* re.sub(r"_C\d+$", "", base)
StripChannel(base) ==
    IF Len(base) >= 2 /\ base[Len(base)] \in ChannelTag
    THEN SubSeq(base, 1, Len(base) - 1) ELSE base

\* re.search(r"_(\d{2})_([A-Z]+)$", base) matches
HasScanSuffix(base) ==
    /\ Len(base) >= 3
    /\ base[Len(base) - 1] \in TwoDigits
    /\ base[Len(base)] \in UpperWord

extract_technique_from_filename(stem) ==
    LET base == StripChannel(stem)
        heads == {i \in 1 .. Len(TechniqueAbbrevs) :
                     Len(base) >= 1 /\ base[1] = TechniqueAbbrevs[i]}
        known == {i \in 1 .. Len(base) : base[i] \in KnownTechniques}
    IN  IF HasScanSuffix(base) /\ base[Len(base)] \in KnownTechniques
        THEN base[Len(base)]
        ELSE IF heads # {}
        THEN TechniqueAbbrevs[CHOOSE i \in heads : \A j \in heads : i <= j]
        ELSE IF known # {}
        THEN base[CHOOSE i \in known : \A j \in known : i <= j]
        ELSE NoneV

\* A label that keeps the scan suffix.
LabelKeepsScanSuffix(stem) ==
    StripChannel(stem)

extract_label_from_filename(stem) ==
    LET label == StripChannel(stem)
    IN  IF HasScanSuffix(label) THEN SubSeq(label, 1, Len(label) - 2)
        ELSE label

ExtractFromFilename ==
    /\ calc.stage = "filename"
    /\ calc' = [stage |-> "named", stem |-> calc.stem,
                technique |-> extract_technique_from_filename(calc.stem),
                label |-> extract_label_from_filename(calc.stem)]
    /\ UNCHANGED <<now, sessions, heap, nextId, lastOp, hs, rt, xas, tasks>>

InitName ==
    /\ now = 0
    /\ sessions = {}
    /\ heap = [i \in {} |-> NewSession(0)]
    /\ nextId = 1
    /\ lastOp = Other
    /\ hs = HsIdle
    /\ rt = RtIdle
    /\ xas = XasInit
    /\ tasks = NoTasks
    /\ calc \in {[stage |-> "filename", stem |-> q] :
                    q \in SeqsUpTo(NameParts, MaxParts) \ {<<>>}}

NextName == ExtractFromFilename

SpecName == InitName /\ [][NextName]_vars

ExampleStem == <<"CA", "sample", "01", "CA">>

\* C21 as stated: CA_sample_01_CA.mpr gives technique CA and the label
\* CA_sample_01.
C21_ExampleAsStated ==
    (calc.stage = "named" /\ calc.stem = ExampleStem) =>
        /\ calc.technique = "CA"
        /\ calc.label = <<"CA", "sample", "01">>

\* C21 (amended): CA_sample_01_CA.mpr gives technique CA and the label
\* CA_sample; the technique is the first hit of the known scan suffix, a
\* known abbreviation at the head, a known abbreviation among the parts, and
\* the label is the stem without a trailing channel tag and scan suffix.
C21_FilenameDerivation ==
    calc.stage = "named" =>
        LET n0 == Len(calc.stem)
            cut == IF n0 >= 2 /\ calc.stem[n0] \in ChannelTag THEN 1 ELSE 0
            base == SubSeq(calc.stem, 1, n0 - cut)
            n == Len(base)
            suffix == n >= 3 /\ base[n - 1] \in TwoDigits /\ base[n] \in UpperWord
            t == calc.technique
        IN  /\ calc.stem = ExampleStem =>
                  t = "CA" /\ calc.label = <<"CA", "sample">>
            /\ calc.label = SubSeq(base, 1, IF suffix THEN n - 2 ELSE n)
            /\ (suffix /\ base[n] \in KnownTechniques) => t = base[n]
            /\ (~(suffix /\ base[n] \in KnownTechniques)
                   /\ base[1] \in KnownTechniques) => t = base[1]
            /\ (~(suffix /\ base[n] \in KnownTechniques)
                   /\ base[1] \notin KnownTechniques) =>
                  \/ /\ t = NoneV
                     /\ \A i \in 1 .. n : base[i] \notin KnownTechniques
                  \/ \E i \in 1 .. n :
                        /\ t = base[i]
                        /\ t \in KnownTechniques
                        /\ \A j \in 1 .. i - 1 : base[j] \notin KnownTechniques

\* Witness for C21: the example filename has been parsed.
C21_Witness ==
    /\ calc.stage = "named"
    /\ calc.stem = ExampleStem
    /\ calc.label = <<"CA", "sample">>

----------------------------------------------------------------------------
(* The background cleanup task of the session manager.                     *)

MaxTasks == 3

\* start_cleanup_task: asyncio.create_task(self._cleanup_loop())
StartCleanupTask ==
    /\ tasks.created < MaxTasks
    /\ tasks' = [cleanup_task |-> tasks.created + 1,
                 live |-> tasks.live \cup {tasks.created + 1},
                 created |-> tasks.created + 1]
    /\ lastOp' = Other
    /\ UNCHANGED <<now, sessions, heap, nextId, hs, rt, xas, calc>>

\* stop_cleanup_task: cancels the task _cleanup_task refers to, if any, and
\* waits for it to end.
StopCleanupTask ==
    /\ tasks' = IF tasks.cleanup_task # NoneId
                THEN [tasks EXCEPT !.live = @ \ {tasks.cleanup_task}]
                ELSE tasks
    /\ lastOp' = Other
    /\ UNCHANGED <<now, sessions, heap, nextId, hs, rt, xas, calc>>

\* One round of _cleanup_loop in a task that has not been cancelled.
CleanupLoop(t) ==
    /\ t \in tasks.live
    /\ CleanupExpiredSessions

NextTask ==
    \/ StartCleanupTask
    \/ StopCleanupTask
    \/ \E t \in tasks.live : CleanupLoop(t)
    \/ Tick
    \/ \E id \in Cookies : GetOrCreateSession(id)

SpecTask == Init /\ [][NextTask]_vars

\* C22: there is never more than one live _cleanup_loop task, and after
\* stop_cleanup_task none is running.
C22_SingleCleanupLoop ==
    /\ [](Cardinality(tasks.live) <= 1)
    /\ [][StopCleanupTask => tasks'.live = {}]_vars

----------------------------------------------------------------------------
(* Requests that write to the store of one project, handled one at a time. *)

StoreRois == {"mu_roi", "Pt_corr"}

\* status is declared as str: any string passes validation.
StoreScanRequests ==
    {r \in [sample : {"s"}, dataset : {"d1"}, roi : {"mu_roi"},
            scan : {"1.1"}, status : {"good", "ignore", "unreviewed", "done"},
            aligned : BOOLEAN, reference_name : {NoneV} \cup ReferenceNames] :
        r.aligned <=> r.reference_name # NoneV}

BulkRequests ==
    [sample : {"s"}, dataset : {"d1"}, roi : {"mu_roi"},
     scans : {<<"1.1", "1.2">>, <<"1.2", "1.2">>},
     status : {NoneV, "ignore", "done"}]

PeakFits ==
    [sample : {"s"}, dataset : {"d1"}, roi : {"mu_roi"}, n_peaks : {"1", "2"}]

NextStore ==
    \/ OpenProjectStart("P1", TRUE)
    \/ OpenProjectFinish
    \/ CloseProject
    \/ \E name \in StoreRois : SaveRoiConfig(name)
    \/ \E name \in StoreRois : DeleteRoiConfig(name)
    \/ \E r \in StoreScanRequests : SaveScanParams(r)
    \/ \E b \in BulkRequests : BulkApplyParams(b)
    \/ \E name \in ReferenceNames : SaveReference(name)
    \/ \E name \in ReferenceNames : DeleteReference(name)
    \/ \E f \in PeakFits : SavePeakFit(f)

SpecStore == Init /\ [][NextStore]_vars

\* No two documents of the table agree on all the key fields.
UniqueBy(table, keys) ==
    \A i, j \in 1 .. Len(table) :
        (i # j /\ \A k \in keys : k \in DOMAIN table[i] /\ k \in DOMAIN table[j])
            => \E k \in keys : table[i][k] # table[j][k]

\* C23: in every store no two datasets share (sample, dataset), no two ROI
\* configs share name, no two scans share (sample, dataset, roi, scan), no
\* two references share name, no two peak fits share (sample, dataset, roi).
C23_StoreKeysUnique ==
    \A p \in ProjectPaths :
        LET st == xas.stores[p]
        IN  /\ UniqueBy(st.datasets, {"sample", "dataset"})
            /\ UniqueBy(st.roi_configs, {"name"})
            /\ UniqueBy(st.scans, {"sample", "dataset", "roi", "scan"})
            /\ UniqueBy(st.references, {"name"})
            /\ UniqueBy(st.peak_fits, {"sample", "dataset", "roi"})
            /\ \A i \in 1 .. Len(st.scans) :
                  {"sample", "dataset", "roi", "scan"} \subseteq DOMAIN st.scans[i]

\* Witness for C23: the project was opened again after writes of every kind:
\* one dataset, both ROIs, two scans, one reference, one peak fit.
C23_Witness ==
    /\ xas.resp.op = "open"
    /\ xas.resp.status = 200
    /\ Len(xas.stores["P1"].datasets) = 1
    /\ Len(xas.stores["P1"].roi_configs) = 2
    /\ Len(xas.stores["P1"].scans) = 2
    /\ Len(xas.stores["P1"].references) = 1
    /\ Len(xas.stores["P1"].peak_fits) = 1

\* C25: every stored scan record has a status in {unreviewed, good, ignore}.
C25_StatusInSet ==
    \A p \in ProjectPaths :
        \A i \in 1 .. Len(xas.stores[p].scans) :
            xas.stores[p].scans[i]["status"] \in {"unreviewed", "good", "ignore"}

\* C29: an open_project that answers with an error leaves no project open,
\* whatever was open before, and while no project is open every project
\* operation is refused with the 400 error and writes nothing.
C29_FailedOpenLeavesClosed ==
    [][/\ (xas.opening.stage = "closed" /\ xas'.resp.op = "open"
              /\ xas'.resp.status # 200)
          => (~is_open(xas') /\ xas'.stores = xas.stores)
       /\ (xas.opening.stage = "idle" /\ xas'.opening.stage = "idle"
              /\ ~is_open(xas) /\ xas'.resp.op \notin {"open", "close"})
          => /\ xas'.resp.status = 400
             /\ xas'.stores = xas.stores
             /\ ~is_open(xas')]_vars

\* Witness for C29: P1 was open and has a reference; the open_project that
\* followed failed, and the save_reference after it was refused.
C29_Witness ==
    /\ ~is_open(xas)
    /\ xas.project_path = MissingPath
    /\ xas.resp.op = "save_reference"
    /\ xas.resp.status = 400
    /\ Len(xas.stores["P1"].references) = 1
    /\ xas.handles["P1"] = 0

\* C30: after save_scan_params with aligned = false the scan's stored record
\* has no reference_name.
C30_UnalignFreesReference ==
    [][\A r \in ScanRequests :
          (SaveScanParams(r) /\ is_open(xas) /\ ~r.aligned)
             => \A i \in 1 .. Len(xas'.stores[xas.db].scans) :
                   LET d == xas'.stores[xas.db].scans[i]
                   IN  (d["scan"] = r.scan /\ d["roi"] = r.roi)
                          => \/ "reference_name" \notin DOMAIN d
                             \/ d["reference_name"] = NoneV]_vars

----------------------------------------------------------------------------
(* session_import on archives whose metadata.json was not written by       *)
(* session_export: one file entry with any of the three path keys set or   *)
(* absent, and any subset of the paths present as members.                 *)

ImpFilename == "a.mpr"

\* Member names an entry can point at besides the two under data/.
ImpOldPaths == {<<"old", "a", "parquet">>, <<"old", "a", "csv">>}

ImpPaths ==
    ImpOldPaths \cup {DataPath(ImpFilename, "parquet"),
                      DataPath(ImpFilename, "csv")}

\* Each member holds a table of its own, so the member read is visible.
ImpTable(p) ==
    DF(<<"time_s">>,
       IF p = DataPath(ImpFilename, "parquet") THEN 1
       ELSE IF p = DataPath(ImpFilename, "csv") THEN 2
       ELSE IF p = <<"old", "a", "parquet">> THEN 3 ELSE 4, 0)

ImpEntries ==
    {[filename |-> ImpFilename, data_path |-> dp, parquet_path |-> pp,
      parquet_name |-> pn, technique |-> "CV", columns |-> <<"time_s">>,
      cycles |-> <<>>, label |-> NoneV, custom |-> EmptyMap] :
        dp \in {NoPath} \cup ImpPaths,
        pp \in {NoPath} \cup ImpOldPaths,
        pn \in {NoPath, <<"old", "a", "csv">>}}

ImpZips ==
    {[names |-> S \cup {MetadataJson}, metadata |-> <<e>>, legacy |-> <<>>,
      data |-> [p \in S |-> ImpTable(p)]] :
        S \in SUBSET ImpPaths, e \in ImpEntries}

InitImp ==
    /\ now = 0
    /\ sessions = {}
    /\ heap = [i \in {} |-> NewSession(0)]
    /\ nextId = 1
    /\ calc = NoCall
    /\ xas = XasInit
    /\ tasks = NoTasks
    /\ lastOp = Other
    /\ hs = HsIdle
    /\ rt \in {[RtIdle EXCEPT !.stage = "exported", !.zip = z] :
                  z \in ImpZips}

NextImp == RtImport

SpecImp == InitImp /\ [][NextImp]_vars

\* The five candidates of a file entry, in the order the claim gives.
ImpCandidates(fi) ==
    <<fi.data_path, fi.parquet_path, fi.parquet_name,
      DataPath(fi.filename, "parquet"), DataPath(fi.filename, "csv")>>

\* C24: for every file entry, session_import loads the data from the first
\* of data_path, parquet_path, parquet_name, data/<filename>.parquet and
\* data/<filename>.csv that names a member of the archive, and skips the
\* entry only when none of them does.
C24_FirstMemberCandidate ==
    rt.stage = "imported" =>
        LET fi == rt.zip.metadata[1]
            cands == ImpCandidates(fi)
            members == {i \in 1..Len(cands) : cands[i] \in rt.zip.names}
            first == CHOOSE i \in members : \A j \in members : i <= j
        IN  IF members = {} THEN rt.out.datasets = <<>>
            ELSE /\ Len(rt.out.datasets) = 1
                 /\ rt.out.datasets[1].df = rt.zip.data[cands[first]]

----------------------------------------------------------------------------
(* Technique detection (parsers/gamry.py, parsers/biologic.py).  A Gamry   *)
(* filename is the sequence of its characters; the header of a .DTA file   *)
(* is the sequence of its lines, each line the sequence of its             *)
(* tab-separated fields.                                                   *)

MaxName == 3

MaxHeader == 2

\* TECHNIQUE_PATTERNS, in the order of the dict
TECHNIQUE_PATTERNS ==
    <<[pattern |-> <<"l", "s", "v">>, technique |-> "LSV"],
      [pattern |-> <<"c", "v">>, technique |-> "CV"],
      [pattern |-> <<"e", "i", "s">>, technique |-> "PEIS"],
      [pattern |-> <<"c", "a">>, technique |-> "CA"],
      [pattern |-> <<"c", "p">>, technique |-> "CP"],
      [pattern |-> <<"o", "c", "v">>, technique |-> "OCV"],
      [pattern |-> <<"o", "c", "p">>, technique |-> "OCP"]>>

TAG_TO_TECHNIQUE ==
    [t \in {"CV", "LSV", "CHRONOA", "CHRONOP", "CORPOT", "EISPOT", "EISGALV"}
        |-> CASE t = "CV" -> "CV"
              [] t = "LSV" -> "LSV"
              [] t = "CHRONOA" -> "CA"
              [] t = "CHRONOP" -> "CP"
              [] t = "CORPOT" -> "OCP"
              [] t = "EISPOT" -> "PEIS"
              [] t = "EISGALV" -> "GEIS"]

NameChars == {"c", "v", "o", "l", "s", "C"}

\* str.lower() on the sample characters
Lower(name) ==
    [i \in 1 .. Len(name) |-> IF name[i] = "C" THEN "c" ELSE name[i]]

\* pattern in s
Contains(pattern, s) ==
    \E i \in 1 .. Len(s) - Len(pattern) + 1 :
        SubSeq(s, i, i + Len(pattern) - 1) = pattern

detect_technique_from_filename(filename) ==
    LET lower == Lower(filename)
        hits == {i \in 1 .. Len(TECHNIQUE_PATTERNS) :
                    Contains(TECHNIQUE_PATTERNS[i].pattern, lower)}
    IN  IF hits = {} THEN NoneV
        ELSE TECHNIQUE_PATTERNS[CHOOSE i \in hits :
                                    \A j \in hits : i <= j].technique

\* Values of the second field of a TAG line.
TagValues == {"cv", "CHRONOA", "MYTAG", ""}

\* parts[1].strip().upper() on the sample values
StripUpper(tag) == IF tag = "cv" THEN "CV" ELSE tag

HeaderLines ==
    {<<"TAG", v>> : v \in TagValues}
        \cup {<<"TAG">>, <<"CURVE", "TABLE">>, <<"DATE", "1/1/2024">>}

\* The header loop from line i on.
RECURSIVE HeaderScan(_, _)
HeaderScan(header, i) ==
    IF i > Len(header) THEN NoneV
    ELSE LET parts == header[i]
             tag == StripUpper(parts[2])
         IN  IF parts[1] = "TAG" /\ Len(parts) >= 2
             THEN Get(TAG_TO_TECHNIQUE, tag, tag)
             ELSE IF parts[1] = "CURVE" THEN NoneV
                  ELSE HeaderScan(header, i + 1)

detect_technique_from_header(header) == HeaderScan(header, 1)

\* read_gamry_file: the technique of the dataset it returns.
GamryTechnique(filename, header) ==
    LET t == detect_technique_from_header(header)
    IN  IF Truthy(t) THEN t ELSE detect_technique_from_filename(filename)

DetectGamry ==
    /\ calc.stage = "file"
    /\ calc.parser = "gamry"
    /\ calc' = [calc EXCEPT !.stage = "detected",
                            !.technique =
                                GamryTechnique(calc.filename, calc.header)]
    /\ UNCHANGED <<now, sessions, heap, nextId, lastOp, hs, rt, xas, tasks>>

DetectBiologic ==
    /\ calc.stage = "file"
    /\ calc.parser = "biologic"
    /\ calc' = [calc EXCEPT !.stage = "detected",
                            !.technique =
                                extract_technique_from_filename(calc.filename)]
    /\ UNCHANGED <<now, sessions, heap, nextId, lastOp, hs, rt, xas, tasks>>

InitTech ==
    /\ now = 0
    /\ sessions = {}
    /\ heap = [i \in {} |-> NewSession(0)]
    /\ nextId = 1
    /\ lastOp = Other
    /\ hs = HsIdle
    /\ rt = RtIdle
    /\ xas = XasInit
    /\ tasks = NoTasks
    /\ calc \in {[stage |-> "file", parser |-> "gamry", filename |-> n,
                  header |-> h, technique |-> NoneV] :
                    n \in SeqsUpTo(NameChars, MaxName) \ {<<>>},
                    h \in SeqsUpTo(HeaderLines, MaxHeader)}
                \cup
                {[stage |-> "file", parser |-> "biologic", filename |-> q,
                  header |-> <<>>, technique |-> NoneV] :
                    q \in SeqsUpTo(NameParts, MaxParts) \ {<<>>}}

NextTech == DetectGamry \/ DetectBiologic

SpecTech == InitTech /\ [][NextTech]_vars

\* The abbreviations the data model lists for `technique`.
TechniqueSet ==
    {"CV", "LSV", "CA", "CP", "OCV", "OCP", "PEIS", "GEIS", "EIS", "CC", "ZIR"}

\* C26: for any filename and any Gamry header TAG value, the technique a
\* parser sets is None or one of CV, LSV, CA, CP, OCV, OCP, PEIS, GEIS, EIS,
\* CC, ZIR.
C26_TechniqueInClosedSet ==
    calc.stage = "detected" => calc.technique \in TechniqueSet \cup {NoneV}

----------------------------------------------------------------------------
(* POST /export and GET /files on one session (backend/main.py).  The      *)
(* per-file dicts that export_session takes from session.file_metadata are *)
(* the session's own objects; the ones of the request are the request's.   *)

\* One pass of the loop of csv_export, which works on a copy of the dict.
CsvExportOne(st, ds) ==
    LET csv_name == DataPath(ds.filename, "csv")
        custom0 == Get(st.fm, ds.filename, EmptyMap)
        has_label == "label" \in DOMAIN custom0
        file_entry ==
            [filename |-> ds.filename,
             data_path |-> csv_name,
             parquet_path |-> NoPath,
             parquet_name |-> NoPath,
             technique |-> ds.technique,
             columns |-> ds.columns,
             cycles |-> ds.cycles,
             label |-> IF has_label THEN custom0["label"] ELSE ds.label,
             custom |-> IF has_label THEN Drop(custom0, "label") ELSE custom0]
    IN  [names |-> st.names \cup {csv_name},
         data |-> Put(st.data, csv_name, ds.df),
         files |-> Append(st.files, file_entry),
         fm |-> st.fm]

RECURSIVE CsvExportLoop(_, _, _)
CsvExportLoop(st, datasets, i) ==
    IF i > Len(datasets) THEN st
    ELSE CsvExportLoop(CsvExportOne(st, datasets[i]), datasets, i + 1)

\* csv_export: the zip it returns, and file_metadata as it leaves it.
csv_export(datasets, file_metadata) ==
    LET st == CsvExportLoop([names |-> {}, data |-> EmptyMap, files |-> <<>>,
                             fm |-> file_metadata], datasets, 1)
    IN  [zip |-> [names |-> st.names \cup {MetadataJson},
                  metadata |-> st.files,
                  legacy |-> <<>>,
                  data |-> st.data],
         file_metadata |-> st.fm]

\* _dataset_to_file_info and the merge of list_files, per filename.
list_files(sess) ==
    [fn \in DOMAIN sess.datasets |->
        LET ds == sess.datasets[fn]
            own == IF Truthy(ds.label) THEN ds.label ELSE ds.filename
            meta == Get(sess.file_metadata, fn, EmptyMap)
        IN  [label |-> Get(meta, "label", own),
             custom |-> IF fn \in DOMAIN sess.file_metadata
                        THEN Drop(meta, "label") ELSE EmptyMap]]

\* export_session: the response status, the files of metadata.json, and
\* the session as the handler leaves it.  given is the request's
\* file_metadata, a sequence of at most one dict, empty for None.
ExportSessionRes(sess, files, format, given) ==
    LET requested == {files[i] : i \in 1 .. Len(files)}
        client == IF Len(given) > 0 THEN given[1] ELSE EmptyMap
        datasets == [i \in 1 .. Len(files) |-> sess.datasets[files[i]]]
        file_metadata ==
            [fn \in (DOMAIN client) \cup requested |->
                IF fn \in DOMAIN client THEN client[fn]
                ELSE Get(sess.file_metadata, fn, EmptyMap)]
        shared == (requested \ DOMAIN client) \cap DOMAIN sess.file_metadata
        e == IF format = "csv" THEN csv_export(datasets, file_metadata)
             ELSE session_export(datasets, file_metadata, FALSE)
    IN  IF requested \ (DOMAIN sess.datasets) # {}
        THEN [status |-> 404, registry |-> <<>>, sess |-> sess]
        ELSE IF files = <<>>
        THEN [status |-> 400, registry |-> <<>>, sess |-> sess]
        ELSE [status |-> 200,
              registry |-> e.zip.metadata,
              sess |-> [sess EXCEPT !.file_metadata =
                           [fn \in DOMAIN @ |->
                               IF fn \in shared THEN e.file_metadata[fn]
                               ELSE @[fn]]]]

ExportSession(cookie, files, format, given) ==
    LET g == GetOrCreateRes(cookie)
        r == ExportSessionRes(g.hp[g.sid], files, format, given)
    IN  /\ g.next <= MaxSessions + 1
        /\ sessions' = g.map
        /\ nextId' = g.next
        /\ heap' = [g.hp EXCEPT ![g.sid] = r.sess]
        /\ calc' = [stage |-> "export", status |-> r.status, files |-> files,
                    format |-> format, given |-> given,
                    registry |-> r.registry]
        /\ lastOp' = Other
        /\ UNCHANGED <<now, hs, rt, xas, tasks>>

ListFiles(cookie) ==
    LET g == GetOrCreateRes(cookie)
    IN  /\ g.next <= MaxSessions + 1
        /\ sessions' = g.map
        /\ nextId' = g.next
        /\ heap' = g.hp
        /\ calc' = [stage |-> "files", result |-> list_files(g.hp[g.sid])]
        /\ lastOp' = Other
        /\ UNCHANGED <<now, hs, rt, xas, tasks>>

ExportFiles ==
    {<<>>, <<"a.mpr">>, <<"b.mpr">>, <<"a.mpr", "b.mpr">>, <<"zz.mpr">>}

\* The request's file_metadata: None, or labels and columns for a.mpr.
ExportGiven ==
    {<<>>, <<EmptyMap>>,
     <<[fn \in {"a.mpr"} |-> [k \in {"label"} |-> "client"]]>>,
     <<[fn \in {"a.mpr"} |-> [k \in {"note"} |-> "x"]]>>}

NextExp ==
    \/ \E f \in {FileA, FileB} : AddDataset(1, f.dataset)
    \/ \E fn \in {"a.mpr", "b.mpr"} :
          \E label \in {NoneV, "edited"} :
             \E custom \in {<<>>, <<[k \in {"note"} |-> "x"]>>} :
                UpdateFileMetadata(1, fn, label, custom)
    \/ \E files \in ExportFiles : \E format \in {"parquet", "csv"} :
          \E given \in ExportGiven : ExportSession(1, files, format, given)
    \/ ListFiles(1)

SpecExp == InitUp /\ [][NextExp]_vars

\* C27: an export, in the format parquet or csv and with or without
\* file_metadata in the request, leaves the session's datasets and
\* file_metadata as they were, so list_files reports the same labels after
\* it as before, and an identical export right after it writes the same
\* file entries.
C27_ExportReadOnly ==
    [][\A files \in ExportFiles : \A format \in {"parquet", "csv"} :
          \A given \in ExportGiven :
             ExportSession(1, files, format, given) =>
                /\ heap'[1].datasets = heap[1].datasets
                /\ heap'[1].file_metadata = heap[1].file_metadata
                /\ list_files(heap'[1]) = list_files(heap[1])
                /\ (/\ calc.stage = "export"
                    /\ calc.status = 200
                    /\ calc.files = files
                    /\ calc.format = format
                    /\ calc.given = given) =>
                       calc'.registry = calc.registry]_vars

----------------------------------------------------------------------------
(* The four mutators of SessionState on one session, with files that are   *)
(* in the session and files that are not.                                  *)

NextKeys ==
    \/ Tick
    \/ \E f \in {FileA, FileHeavyA, FileB} : AddDataset(1, f.dataset)
    \/ \E fn \in MetaNames : RemoveDataset(1, fn)
    \/ \E fn \in MetaNames : \E u \in MetaPatches : UpdateMetadata(1, fn, u)
    \/ Clear(1)

SpecKeys == InitUp /\ [][NextKeys]_vars

\* C28: in every state of a session reached by add_dataset, remove_dataset,
\* update_metadata and clear, the filenames of datasets are the filenames
\* of file_metadata, and the metadata entry that add_dataset creates has a
\* "label" key.
C28_KeySetsAgree ==
    /\ [](\A s \in DOMAIN heap :
             DOMAIN heap[s].datasets = DOMAIN heap[s].file_metadata)
    /\ [][\A f \in {FileA, FileHeavyA, FileB} :
             AddDataset(1, f.dataset) =>
                "label" \in DOMAIN heap'[1].file_metadata[f.dataset.filename]]_vars

\* b.mpr alone is left of two files, with a custom column set on it.
C28_Witness ==
    /\ DOMAIN heap[1].datasets = {"b.mpr"}
    /\ DOMAIN heap[1].file_metadata = {"b.mpr"}
    /\ "note" \in DOMAIN heap[1].file_metadata["b.mpr"]
    /\ heap[1].last_accessed > 0

============================================================================
